---- MODULE Spec2Model ----
(***************************************************************************)
(* Agent orchestration core of agent-cli: the turn loop of Agent.run, the   *)
(* Task tool's subagent loop, the tool dispatcher and the task tracker,     *)
(* driven by the Textual application (UI thread + one background worker).   *)
(***************************************************************************)
EXTENDS Integers, Sequences, FiniteSets, TLC

\* ------------------------------------------------------------------ bounds
\* user inputs submitted in one behaviour
MaxRuns == 2
\* model requests (parent and subagent together) issued in one behaviour
MaxModelCalls == 3
MaxTaskListLen == 2
MaxTurns == 12

\* ------------------------------------------------------------- text values
INITIAL_REMINDER == "<reminder>Use TaskUpdate for multi-step tasks.</reminder>"
NAG_REMINDER == "<reminder>10+ turns without task update. Please update tasks.</reminder>"
INTERRUPT_NOTIFICATION == "<system_notification type=\"task_interrupted\">"
SYSTEM_REMINDER == "<system-reminder>CLAUDE.md</system-reminder>"

\* load_system_reminder: the reminder when CLAUDE.md exists and is readable,
\* None (here the empty sequence of reminders) otherwise.
load_system_reminder(claude_md_readable) ==
    IF claude_md_readable THEN <<SYSTEM_REMINDER>> ELSE <<>>

\* ------------------------------------------------------------------ blocks
\* A message is [role, content]; content is a sequence of blocks.  Python
\* contents that are a plain str (the interrupt notification, the subagent's
\* first message) are a single block of type "str".
TextBlock(t) == [type |-> "text", text |-> t]
StrContent(s) == <<[type |-> "str", text |-> s]>>
ToolUseBlock(id, name, input) == [type |-> "tool_use", id |-> id, name |-> name, input |-> input]
ToolResultBlock(id, output) == [type |-> "tool_result", tool_use_id |-> id, content |-> output]
Message(role, content) == [role |-> role, content |-> content]

IsToolUse(b) == b.type = "tool_use"
IsToolResult(b) == b.type = "tool_result"
IsText(b) == b.type = "text"

\* tool_calls: the ToolUseBlocks of a response, in order
ToolCallsOf(content) == SelectSeq(content, IsToolUse)

\* ------------------------------------------------------------ task tracker
MAX_TASKS == 20

\* str.strip(): leading and trailing blanks removed
RECURSIVE StripLeft(_)
StripLeft(s) ==
    IF Len(s) > 0 /\ SubSeq(s, 1, 1) = " " THEN StripLeft(SubSeq(s, 2, Len(s))) ELSE s

RECURSIVE StripRight(_)
StripRight(s) ==
    IF Len(s) > 0 /\ SubSeq(s, Len(s), Len(s)) = " " THEN StripRight(SubSeq(s, 1, Len(s) - 1)) ELSE s

Strip(s) == StripRight(StripLeft(s))

\* dict.get(key, default)
Get(d, key, default) == IF key \in DOMAIN d THEN d[key] ELSE default

\* _dict_to_task: the three fields, defaulted to "", "pending", "" and stripped
DictToTask(d) ==
    [content |-> Strip(Get(d, "content", "")),
     status |-> Strip(Get(d, "status", "pending")),
     active_form |-> Strip(Get(d, "active_form", ""))]

InProgressCount(ts) == Cardinality({i \in 1..Len(ts) : ts[i].status = "in_progress"})
CompletedCount(ts) == Cardinality({i \in 1..Len(ts) : ts[i].status = "completed"})

\* The ValueError message of TaskManager.update for the first failing task, or
\* "" when every task passes the per-task checks of tasks[1..n].
RECURSIVE TaskError(_, _)
TaskError(ts, i) ==
    IF i > Len(ts) THEN ""
    ELSE IF ts[i].content = "" THEN "Task " \o ToString(i - 1) \o ": content required"
    ELSE IF ts[i].status \notin {"pending", "in_progress", "completed"}
         THEN "Task " \o ToString(i - 1) \o ": invalid status '" \o ts[i].status \o "'"
    ELSE IF ts[i].active_form = "" THEN "Task " \o ToString(i - 1) \o ": active form required"
    ELSE TaskError(ts, i + 1)

\* (variant: the count of in_progress tasks is not checked)
UpdateError_AnyInProgress(ts) ==
    IF TaskError(ts, 1) # "" THEN TaskError(ts, 1)
    ELSE IF Len(ts) > MAX_TASKS THEN "Maximum " \o ToString(MAX_TASKS) \o " tasks allowed"
    ELSE ""

\* TaskManager.update validation: "" when accepted, else the error message
UpdateError(ts) ==
    IF TaskError(ts, 1) # "" THEN TaskError(ts, 1)
    ELSE IF Len(ts) > MAX_TASKS THEN "Maximum " \o ToString(MAX_TASKS) \o " tasks allowed"
    ELSE IF InProgressCount(ts) > 1 THEN "Only one task can be in progress at a time"
    ELSE ""

RenderLine(t) ==
    IF t.status = "completed" THEN "[x] " \o t.content
    ELSE IF t.status = "in_progress" THEN "[>] " \o t.content \o " <- " \o t.active_form
    ELSE "[ ] " \o t.content

RECURSIVE RenderLines(_, _)
RenderLines(ts, i) ==
    IF i > Len(ts) THEN "" ELSE RenderLine(ts[i]) \o "\n" \o RenderLines(ts, i + 1)

\* TaskManager.render
Render(ts) ==
    IF ts = <<>> THEN "No tasks"
    ELSE RenderLines(ts, 1) \o "\n(" \o ToString(CompletedCount(ts)) \o "/"
         \o ToString(Len(ts)) \o " completed)"

\* (variant: the list is stored before it is validated)
RunTaskUpdate_StoreFirst(raw, old) ==
    LET ts == [i \in 1..Len(raw) |-> DictToTask(raw[i])]
        err == UpdateError(ts)
    IN IF err # "" THEN [output |-> "Error: " \o err, tasks |-> ts]
       ELSE [output |-> Render(ts), tasks |-> ts]

\* run_task_update: [output, tasks] of task_manager.update(tasks) with the
\* ValueError turned into an "Error: ..." string
RunTaskUpdate(raw, old) ==
    LET ts == [i \in 1..Len(raw) |-> DictToTask(raw[i])]
        err == UpdateError(ts)
    IN IF err # "" THEN [output |-> "Error: " \o err, tasks |-> old]
       ELSE [output |-> Render(ts), tasks |-> ts]

\* (variant: the tenth round already counts as too long)
TooLongWithoutTask_Early(rounds) == rounds >= 10

\* TaskManager.too_long_without_task
TooLongWithoutTask(rounds) == rounds > 10

\* ------------------------------------------------------------------- tools
BASE_TOOLS == <<"Bash", "Read", "Write", "Edit", "Glob", "Grep", "WebSearch", "WebReader", "TaskUpdate">>

\* build_all_tools: the top-level agent's tool list
BuildAllTools == BASE_TOOLS \o <<"Task", "Skill">>

AgentTypes == {"Explore", "Plan", "Code"}

\* AGENTS[agent_type]["tools"]: a whitelist, or "*" (here <<"*">>)
AgentToolWhitelist(agent_type) ==
    IF agent_type \in {"Explore", "Plan"} THEN <<"Bash", "Read">> ELSE <<"*">>

InSeq(x, s) == \E i \in 1..Len(s) : s[i] = x

\* get_tools_for_agent
GetToolsForAgent(agent_type) ==
    IF AgentToolWhitelist(agent_type) = <<"*">> THEN BASE_TOOLS
    ELSE SelectSeq(BASE_TOOLS, LAMBDA n : InSeq(n, AgentToolWhitelist(agent_type)))

\* The handlers that act on the workspace or the network.  What a handler
\* finds there is the environment's choice: it does its work, or it meets a
\* fault (a missing file, an escaping path, a blocked or timed-out command, an
\* invalid pattern, an unknown skill, a network failure) and reports it.
HandlerTools == {"Bash", "Read", "Write", "Edit", "Glob", "Grep", "WebSearch", "WebReader", "Skill"}

HandlerOutput(name, fails) ==
    IF ~fails THEN "<" \o name \o " output>"
    ELSE IF name = "WebSearch" THEN "Search failed: <" \o name \o " fault>"
    ELSE IF name = "WebReader" THEN "Fetch failed: <" \o name \o " fault>"
    ELSE "Error: <" \o name \o " fault>"

\* The keys execute_tool reads with args[...] before calling the handler
RequiredFields(name) ==
    CASE name = "Bash" -> {"command"}
      [] name = "Read" -> {"path"}
      [] name = "Write" -> {"path", "content"}
      [] name = "Edit" -> {"path", "old_text", "new_text"}
      [] name \in {"Glob", "Grep"} -> {"pattern"}
      [] name = "WebSearch" -> {"query"}
      [] name = "WebReader" -> {"url", "prompt"}
      [] name = "Task" -> {"agent_type", "prompt", "description"}
      [] name = "Skill" -> {"skill_name"}
      [] OTHER -> {}

\* int(...) applied by execute_tool to a field the model sent: Read's limit,
\* Grep's head_limit and offset.  A value is written [type, numeric]; int()
\* raises ValueError on a string that is not a number.
IntFields(name) ==
    IF name = "Read" THEN {"limit"} ELSE IF name = "Grep" THEN {"head_limit", "offset"} ELSE {}

IntRaises(name, args) ==
    \E f \in IntFields(name) \cap DOMAIN args : args[f].type = "str" /\ ~args[f].numeric

\* execute_tool(name, args, spawn_subagent, task_manager): what the dispatch
\* does for one tool call; fails is the environment's choice for the handler.
\*   kind "return": the string returned; tasks is the tracker's list afterwards;
\*                  ran says that a handler was carried out.
\*   kind "spawn":  the call is handed to spawn_subagent.
\*   kind "raise":  a KeyError or ValueError leaves execute_tool.
ExecuteTool(name, args, has_spawn, has_task_manager, fails, cur_tasks) ==
    IF name \in HandlerTools
    THEN IF ~(RequiredFields(name) \subseteq DOMAIN args) \/ IntRaises(name, args)
         THEN [kind |-> "raise", output |-> "", tasks |-> cur_tasks, ran |-> FALSE]
         ELSE [kind |-> "return", output |-> HandlerOutput(name, fails), tasks |-> cur_tasks,
               ran |-> TRUE]
    ELSE IF name = "TaskUpdate"
    THEN IF ~has_task_manager
         THEN [kind |-> "return", output |-> "Error: TaskUpdate not available in this context",
               tasks |-> cur_tasks, ran |-> FALSE]
         ELSE [kind |-> "return",
               output |-> RunTaskUpdate(Get(args, "tasks", <<>>), cur_tasks).output,
               tasks |-> RunTaskUpdate(Get(args, "tasks", <<>>), cur_tasks).tasks, ran |-> TRUE]
    ELSE IF name = "Task"
    THEN IF ~has_spawn
         THEN [kind |-> "return", output |-> "Error: Task tool not available in this context",
               tasks |-> cur_tasks, ran |-> FALSE]
         ELSE IF ~(RequiredFields(name) \subseteq DOMAIN args)
         THEN [kind |-> "raise", output |-> "", tasks |-> cur_tasks, ran |-> FALSE]
         ELSE [kind |-> "spawn", output |-> "", tasks |-> cur_tasks, ran |-> TRUE]
    ELSE [kind |-> "return", output |-> "Unknown tool: " \o name, tasks |-> cur_tasks, ran |-> FALSE]

\* spawn_subagent's guard on the agent type
UnknownAgentError(agent_type) == "Error: Unknown agent type '" \o agent_type \o "'"

\* The text spawn_subagent returns: the interrupted notice, else the first text
\* block of the final response, else the fixed sentinel.
RECURSIVE FirstText(_, _)
FirstText(content, i) ==
    IF i > Len(content) THEN "(subagent returned no text)"
    ELSE IF IsText(content[i]) THEN content[i].text
    ELSE FirstText(content, i + 1)

\* (variant: the text of the last text block is returned)
SpawnResult_LastText(interrupted, tool_count, final_content) ==
    LET texts == SelectSeq(final_content, IsText)
    IN IF interrupted
       THEN "(subagent interrupted by user after " \o ToString(tool_count) \o " tool calls)"
       ELSE IF texts = <<>> THEN "(subagent returned no text)" ELSE texts[Len(texts)].text

SpawnResult(interrupted, tool_count, final_content) ==
    IF interrupted
    THEN "(subagent interrupted by user after " \o ToString(tool_count) \o " tool calls)"
    ELSE FirstText(final_content, 1)

\* (variant: the parent's callback and tracker are handed to the subagent's tools)
SubSpawnArg_Given == TRUE
SubTaskManagerArg_Given == TRUE

\* The arguments spawn_subagent passes to execute_tool: spawn_subagent=None and
\* no task_manager (the parameter's default, None).
SubSpawnArg == FALSE
SubTaskManagerArg == FALSE

\* (variant: the subagent's conversation starts from the parent's)
SubInitialMessages_Leak(parent_messages, prompt) ==
    Append(parent_messages, Message("user", StrContent(prompt)))

\* The subagent's conversation at construction: the prompt alone.
SubInitialMessages(parent_messages, prompt) == <<Message("user", StrContent(prompt))>>

\* ------------------------------------------------- what the model may send
MainText == "main text"
SubText == "sub text"
SubText2 == "sub text 2"
UserInputs == {"hello"}
TaskPrompt == "list .py files"

Bash == [name |-> "Bash", input |-> [command |-> "ls"]]
Read == [name |-> "Read", input |-> [path |-> "f.txt"]]
Write == [name |-> "Write", input |-> [path |-> "f.txt", content |-> "c"]]
TaskA == [content |-> "A", status |-> "in_progress", active_form |-> "Doing A"]
TaskUpdateOk == [name |-> "TaskUpdate", input |-> [tasks |-> <<TaskA>>]]
TaskTool(agent_type) ==
    [name |-> "Task", input |-> [agent_type |-> agent_type, prompt |-> TaskPrompt, description |-> "d"]]

\* A response as the transport yields it, before its tool-use ids are known:
\* stop reason, leading text blocks, tool uses.
Resp(stop_reason, texts, tools) == [stop_reason |-> stop_reason, texts |-> texts, tools |-> tools]

ParentResponses ==
    { Resp("end_turn", <<MainText>>, <<>>),
      Resp("max_tokens", <<MainText>>, <<Bash>>),
      Resp("tool_use", <<>>, <<Bash>>),
      Resp("tool_use", <<MainText>>, <<Write, TaskUpdateOk>>),
      Resp("tool_use", <<>>, <<TaskTool("Explore")>>),
      Resp("tool_use", <<>>, <<TaskTool("Code"), Bash>>),
      Resp("tool_use", <<>>, <<TaskTool("Review")>>) }

SubResponses ==
    { Resp("end_turn", <<SubText, SubText2>>, <<>>),
      Resp("end_turn", <<>>, <<>>),
      Resp("tool_use", <<SubText>>, <<Write, TaskUpdateOk>>),
      Resp("tool_use", <<>>, <<Read, TaskTool("Explore")>>) }

\* Tool-use ids are opaque unique tokens issued by the transport; the model
\* tags each with the conversation it was issued in.
ToolId(by, n) == [by |-> by, n |-> n]

\* response.content: the text blocks, then the tool-use blocks with fresh ids
ContentOf(r, by, id0) ==
    [i \in 1..Len(r.texts) |-> TextBlock(r.texts[i])]
    \o [i \in 1..Len(r.tools) |-> ToolUseBlock(ToolId(by, id0 + i - 1), r.tools[i].name, r.tools[i].input)]

NoResponse == [stop_reason |-> "none", content |-> <<>>]
NoSub == [active |-> FALSE]
NoRequest == [pc |-> "none", idx |-> 0, calls |-> 0, sub_tools |-> 0]
NoInvocation == [name |-> "none"]

\* The files present before the agent writes any: one outside the workspace
InitialFiles == [loc \in {<<"etc", "f">>} |-> "x"]
\* fetch_cached's cache is empty, the clock reads 0, no call and no GET made yet
NoWeb == [cache |-> <<>>, now |-> 0, gets |-> 0, others |-> 0, log |-> <<>>]
\* AgentConfig.from_settings not called yet
NoConfig == [loaded |-> FALSE]
\* No SkillLoader constructed yet
NoSkills == [loaded |-> FALSE, local |-> <<>>, plugins |-> <<>>, index |-> <<>>]

\* ------------------------------------------------------------------- state
VARIABLES
    messages,             \* Agent.messages
    first_turn,           \* Agent.first_turn
    interrupt_requested,  \* Agent._interrupt_requested
    tasks,                \* TaskManager.tasks
    rounds_without_task,  \* TaskManager.rounds_without_task
    is_running,           \* AgentApp._is_running
    is_interrupting,      \* AgentApp._is_interrupting
    pc,                   \* position of the background worker
    user_input,           \* run_agent's argument
    response,             \* _agent_loop: response
    tool_index,           \* _agent_loop: index of the tool call being handled
    results,              \* _agent_loop: results
    used_task,            \* _agent_loop: used_task
    sub,                  \* spawn_subagent's locals while a subagent runs
    model_calls,          \* model requests issued so far
    runs,                 \* inputs submitted so far
    next_id,              \* next tool-use id the transport issues
    ui_interrupted,       \* ui.interrupted() calls during the current run
    executed,             \* <<agent, tool name>> of the handlers carried out in the current run
    req_at,               \* where the worker was when the flag was last raised: its pc, its
                          \* tool index, the model requests and subagent tool calls so far
    invocation,           \* the last execute_tool call made outside the agent loop (as the
                          \* unit tests make it): its arguments and what came back
    files,                \* the regular files of the machine: location -> text
    web,                  \* fetch_cached's lru_cache (least recently used first), the
                          \* clock in seconds, the GETs made for TargetUrl, the other urls
                          \* fetched, and what each call for TargetUrl came to
    skills,               \* the skill directories found on disk and SkillLoader.skills,
                          \* in insertion order: each name and the directory it came from
    config,               \* the settings file and environment found, and the AgentConfig
                          \* that from_settings made of them
    workers               \* the inputs submitted to the application, in order, each with
                          \* the position of the run_agent worker started for it

vars == <<messages, first_turn, interrupt_requested, tasks, rounds_without_task,
          is_running, is_interrupting, pc, user_input, response, tool_index, results,
          used_task, sub, model_calls, runs, next_id, ui_interrupted, executed, req_at,
          invocation, files, web, skills, config, workers>>

world_vars == <<files, web, skills, config, workers>>
agent_vars == <<messages, first_turn, interrupt_requested>>
tracker_vars == <<tasks, rounds_without_task>>
app_vars == <<is_running, is_interrupting>>
loop_vars == <<response, tool_index, results, used_task>>
count_vars == <<model_calls, runs, next_id>>

\* Agent.__init__, TaskManager.__init__, AgentApp.__init__ and on_mount
Init ==
    /\ messages = <<>>
    /\ first_turn = TRUE
    /\ interrupt_requested = FALSE
    /\ tasks = <<>>
    /\ rounds_without_task = 0
    /\ is_running = FALSE
    /\ is_interrupting = FALSE
    /\ pc = "idle"
    /\ user_input = ""
    /\ response = NoResponse
    /\ tool_index = 0
    /\ results = <<>>
    /\ used_task = FALSE
    /\ sub = NoSub
    /\ model_calls = 0
    /\ runs = 0
    /\ next_id = 1
    /\ ui_interrupted = 0
    /\ executed = {}
    /\ req_at = NoRequest
    /\ invocation = NoInvocation
    /\ files = InitialFiles
    /\ web = NoWeb
    /\ skills = NoSkills
    /\ config = NoConfig
    /\ workers = <<>>


\* ------------------------------------------------------------- UI thread
\* on_input_submit with a message (not a slash command): refused while a run
\* is flagged running, else the worker is started.  One worker exists at a time;
\* no input is submitted once the behaviour's model requests are used up.
Submit ==
    /\ pc = "idle"
    /\ ~is_running
    /\ runs < MaxRuns
    /\ model_calls < MaxModelCalls
    /\ \E u \in UserInputs : user_input' = u
    /\ pc' = "started"
    /\ runs' = runs + 1
    /\ UNCHANGED <<agent_vars, tracker_vars, app_vars, invocation, world_vars, loop_vars, sub, model_calls,
                   next_id, ui_interrupted, executed, req_at>>

\* (variant: the new agent gets a new, empty task tracker)
ClearHistory_NewTracker ==
    /\ ~is_running
    /\ messages' = <<>>
    /\ first_turn' = TRUE
    /\ interrupt_requested' = FALSE
    /\ req_at' = NoRequest
    /\ tasks' = <<>>
    /\ rounds_without_task' = 0
    /\ UNCHANGED <<app_vars, pc, user_input, invocation, world_vars, loop_vars, sub, count_vars,
                   ui_interrupted, executed>>

\* on_input_submit with "/clear": clear_history builds a new Agent around the
\* same TaskManager.
ClearHistory ==
    /\ ~is_running
    /\ messages' = <<>>
    /\ first_turn' = TRUE
    /\ interrupt_requested' = FALSE
    /\ req_at' = NoRequest
    /\ UNCHANGED <<tracker_vars, app_vars, pc, user_input, invocation, world_vars, loop_vars, sub, count_vars,
                   ui_interrupted, executed>>

\* action_interrupt (ctrl+c), which calls Agent.request_interrupt
ActionInterrupt ==
    /\ is_running
    /\ ~(is_interrupting /\ interrupt_requested)
    /\ is_interrupting' = TRUE
    /\ interrupt_requested' = TRUE
    /\ req_at' = IF interrupt_requested THEN req_at
                  ELSE [pc |-> pc, idx |-> tool_index, calls |-> model_calls,
                        sub_tools |-> IF sub.active THEN sub.tool_count ELSE 0]
    /\ UNCHANGED <<messages, first_turn, tracker_vars, is_running, pc, user_input, invocation, world_vars,
                   loop_vars, sub, count_vars, ui_interrupted, executed>>

\* ---------------------------------------------------------- worker thread
\* run_agent: self._is_running = True
RunAgentStart ==
    /\ pc = "started"
    /\ is_running' = TRUE
    /\ ui_interrupted' = 0
    /\ executed' = {}
    /\ pc' = "clear"
    /\ UNCHANGED <<agent_vars, tracker_vars, is_interrupting, user_input, invocation, world_vars, loop_vars, sub,
                   count_vars, req_at>>

\* (variant: the run starts without clearing the flag)
ClearInterrupt_Keep ==
    /\ pc = "clear"
    /\ pc' = "build"
    /\ UNCHANGED <<interrupt_requested, req_at>>
    /\ UNCHANGED <<messages, first_turn, tracker_vars, app_vars, user_input, invocation, world_vars, loop_vars, sub,
                   count_vars, ui_interrupted, executed>>

\* Agent.run: self._clear_interrupt()
ClearInterrupt ==
    /\ pc = "clear"
    /\ interrupt_requested' = FALSE
    /\ req_at' = NoRequest
    /\ pc' = "build"
    /\ UNCHANGED <<messages, first_turn, tracker_vars, app_vars, user_input, invocation, world_vars, loop_vars, sub,
                   count_vars, ui_interrupted, executed>>

\* (variant: the reminders are attached to every message of a top-level agent)
BuildContent_EveryTurn(first, is_subagent, claude_md_readable, input) ==
    (IF ~is_subagent
     THEN [i \in 1..Len(load_system_reminder(claude_md_readable)) |->
              TextBlock(load_system_reminder(claude_md_readable)[i]) ]
          \o <<TextBlock(INITIAL_REMINDER)>>
     ELSE <<>>)
    \o <<TextBlock(input)>>

\* Agent._build_message (is_subagent is False for the application's agent)
BuildContent(first, is_subagent, claude_md_readable, input) ==
    (IF first /\ ~is_subagent
     THEN [i \in 1..Len(load_system_reminder(claude_md_readable)) |->
              TextBlock(load_system_reminder(claude_md_readable)[i]) ]
          \o <<TextBlock(INITIAL_REMINDER)>>
     ELSE <<>>)
    \o <<TextBlock(input)>>

BuildMessage ==
    /\ pc = "build"
    /\ \E md \in (IF first_turn THEN BOOLEAN ELSE {FALSE}) :
          messages' = Append(messages, Message("user", BuildContent(first_turn, FALSE, md, user_input)))
    /\ first_turn' = FALSE
    /\ pc' = "poll_a"
    /\ UNCHANGED <<interrupt_requested, tracker_vars, app_vars, user_input, invocation, world_vars, loop_vars, sub,
                   count_vars, ui_interrupted, executed, req_at>>

\* (variant: no interrupt check before the model call)
PollBeforeCall_NoCheck ==
    /\ pc = "poll_a"
    /\ pc' = "call"
    /\ UNCHANGED <<agent_vars, tracker_vars, app_vars, user_input, invocation, world_vars, loop_vars, sub,
                   count_vars, ui_interrupted, executed, req_at>>

\* _agent_loop, top of the loop: the interrupt check before the model call
PollBeforeCall ==
    /\ pc = "poll_a"
    /\ pc' = IF interrupt_requested THEN "interrupt" ELSE "call"
    /\ UNCHANGED <<agent_vars, tracker_vars, app_vars, user_input, invocation, world_vars, loop_vars, sub,
                   count_vars, ui_interrupted, executed, req_at>>

\* client.messages.create returns a response
ModelCall ==
    /\ pc = "call"
    /\ model_calls < MaxModelCalls
    /\ \E r \in ParentResponses :
          /\ response' = [stop_reason |-> r.stop_reason, content |-> ContentOf(r, "main", next_id)]
          /\ next_id' = next_id + Len(r.tools)
    /\ model_calls' = model_calls + 1
    /\ pc' = "poll_b"
    /\ UNCHANGED <<agent_vars, tracker_vars, app_vars, user_input, invocation, world_vars, tool_index, results,
                   used_task, sub, runs, ui_interrupted, executed, req_at>>

\* client.messages.create raises (transport failure): the exception leaves
\* _agent_loop and Agent.run and reaches run_agent's except clause
ModelFail ==
    /\ pc = "call"
    /\ model_calls < MaxModelCalls
    /\ model_calls' = model_calls + 1
    /\ pc' = "error"
    /\ UNCHANGED <<agent_vars, tracker_vars, app_vars, user_input, invocation, world_vars, loop_vars, sub, runs,
                   next_id, ui_interrupted, executed, req_at>>

\* (variant: the response is recorded before the interrupt is raised)
PollAfterCall_RecordFirst ==
    /\ pc = "poll_b"
    /\ IF interrupt_requested
       THEN /\ pc' = "interrupt"
            /\ messages' = Append(messages, Message("assistant", response.content))
            /\ UNCHANGED <<tool_index, results, used_task>>
       ELSE IF response.stop_reason # "tool_use"
       THEN /\ messages' = Append(messages, Message("assistant", response.content))
            /\ pc' = "finally"
            /\ UNCHANGED <<tool_index, results, used_task>>
       ELSE /\ results' = <<>>
            /\ used_task' = FALSE
            /\ tool_index' = 1
            /\ pc' = IF ToolCallsOf(response.content) = <<>> THEN "turn_end" ELSE "poll_c"
            /\ UNCHANGED messages
    /\ UNCHANGED <<first_turn, interrupt_requested, tracker_vars, app_vars, user_input, invocation, world_vars,
                   response, sub, count_vars, ui_interrupted, executed, req_at>>

\* The interrupt check after the model call, then steps 2 and 3 of the loop:
\* a response whose stop reason is not tool_use is appended and the loop
\* returns; otherwise the tool loop starts.
PollAfterCall ==
    /\ pc = "poll_b"
    /\ IF interrupt_requested
       THEN /\ pc' = "interrupt"
            /\ UNCHANGED <<messages, tool_index, results, used_task>>
       ELSE IF response.stop_reason # "tool_use"
       THEN /\ messages' = Append(messages, Message("assistant", response.content))
            /\ pc' = "finally"
            /\ UNCHANGED <<tool_index, results, used_task>>
       ELSE /\ results' = <<>>
            /\ used_task' = FALSE
            /\ tool_index' = 1
            /\ pc' = IF ToolCallsOf(response.content) = <<>> THEN "turn_end" ELSE "poll_c"
            /\ UNCHANGED messages
    /\ UNCHANGED <<first_turn, interrupt_requested, tracker_vars, app_vars, user_input, invocation, world_vars,
                   response, sub, count_vars, ui_interrupted, executed, req_at>>

\* (variant: no interrupt check before a tool execution)
PollBeforeTool_NoCheck ==
    /\ pc = "poll_c"
    /\ pc' = "dispatch"
    /\ UNCHANGED <<agent_vars, tracker_vars, app_vars, user_input, invocation, world_vars, loop_vars, sub,
                   count_vars, ui_interrupted, executed, req_at>>

\* The interrupt check before each tool execution
PollBeforeTool ==
    /\ pc = "poll_c"
    /\ pc' = IF interrupt_requested THEN "interrupt" ELSE "dispatch"
    /\ UNCHANGED <<agent_vars, tracker_vars, app_vars, user_input, invocation, world_vars, loop_vars, sub,
                   count_vars, ui_interrupted, executed, req_at>>

CurrentCall == ToolCallsOf(response.content)[tool_index]

\* where the tool loop goes after the tool at index i
AfterTool(i) == IF i < Len(ToolCallsOf(response.content)) THEN "poll_c" ELSE "turn_end"

\* (variant: a new result is put in front of the results collected so far)
DispatchTool_Prepend ==
    /\ pc = "dispatch"
    /\ LET tc == CurrentCall
           eff == ExecuteTool(tc.name, tc.input, TRUE, TRUE, FALSE, tasks)
           unknown == eff.kind = "spawn" /\ tc.input.agent_type \notin AgentTypes
           out == IF unknown THEN UnknownAgentError(tc.input.agent_type) ELSE eff.output
       IN /\ eff.kind \in {"return", "raise"} \/ unknown
          /\ IF eff.kind = "raise"
             THEN /\ pc' = "error"
                  /\ UNCHANGED <<results, used_task, tool_index>>
             ELSE /\ results' = <<ToolResultBlock(tc.id, out)>> \o results
                  /\ used_task' = (used_task \/ tc.name = "TaskUpdate")
                  /\ pc' = AfterTool(tool_index)
                  /\ tool_index' = tool_index + 1
          /\ tasks' = eff.tasks
          /\ executed' = IF eff.ran /\ ~unknown THEN executed \cup {<<"main", tc.name>>} ELSE executed
    /\ UNCHANGED <<agent_vars, rounds_without_task, app_vars, user_input, invocation, world_vars, response, sub,
                   count_vars, ui_interrupted, req_at>>

\* execute_tool returns for the current tool call (every tool but a Task call
\* that starts a subagent) and the result is collected, or it raises and the
\* exception leaves _agent_loop.  The handlers of this loop meet no fault.
DispatchTool ==
    /\ pc = "dispatch"
    /\ LET tc == CurrentCall
           eff == ExecuteTool(tc.name, tc.input, TRUE, TRUE, FALSE, tasks)
           unknown == eff.kind = "spawn" /\ tc.input.agent_type \notin AgentTypes
           out == IF unknown THEN UnknownAgentError(tc.input.agent_type) ELSE eff.output
       IN /\ eff.kind \in {"return", "raise"} \/ unknown
          /\ IF eff.kind = "raise"
             THEN /\ pc' = "error"
                  /\ UNCHANGED <<results, used_task, tool_index>>
             ELSE /\ results' = Append(results, ToolResultBlock(tc.id, out))
                  /\ used_task' = (used_task \/ tc.name = "TaskUpdate")
                  /\ pc' = AfterTool(tool_index)
                  /\ tool_index' = tool_index + 1
          /\ tasks' = eff.tasks
          /\ executed' = IF eff.ran /\ ~unknown THEN executed \cup {<<"main", tc.name>>} ELSE executed
    /\ UNCHANGED <<agent_vars, rounds_without_task, app_vars, user_input, invocation, world_vars, response, sub,
                   count_vars, ui_interrupted, req_at>>

\* (variant: the counter is incremented whether or not TaskUpdate was used)
TurnEnd_NoReset ==
    /\ pc = "turn_end"
    /\ LET rounds == rounds_without_task + 1
           nag == IF TooLongWithoutTask(rounds) THEN <<TextBlock(NAG_REMINDER)>> ELSE <<>>
       IN /\ rounds_without_task' = rounds
          /\ messages' = messages \o <<Message("assistant", response.content),
                                       Message("user", nag \o results)>>
    /\ response' = NoResponse
    /\ tool_index' = 0
    /\ results' = <<>>
    /\ used_task' = FALSE
    /\ pc' = "poll_a"
    /\ UNCHANGED <<first_turn, interrupt_requested, tasks, app_vars, user_input, invocation, world_vars, sub,
                   count_vars, ui_interrupted, executed, req_at>>

\* Steps 7 and 8: the tracker's counter, the assistant message, the results
TurnEnd ==
    /\ pc = "turn_end"
    /\ LET rounds == IF used_task THEN 0 ELSE rounds_without_task + 1
           nag == IF TooLongWithoutTask(rounds) THEN <<TextBlock(NAG_REMINDER)>> ELSE <<>>
       IN /\ rounds_without_task' = rounds
          /\ messages' = messages \o <<Message("assistant", response.content),
                                       Message("user", nag \o results)>>
    /\ response' = NoResponse
    /\ tool_index' = 0
    /\ results' = <<>>
    /\ used_task' = FALSE
    /\ pc' = "poll_a"
    /\ UNCHANGED <<first_turn, interrupt_requested, tasks, app_vars, user_input, invocation, world_vars, sub,
                   count_vars, ui_interrupted, executed, req_at>>

\* (variant: the notification takes the place of the last message)
InterruptHandler_Overwrite ==
    /\ pc = "interrupt"
    /\ ui_interrupted' = ui_interrupted + 1
    /\ messages' = [messages EXCEPT ![Len(messages)] = Message("user", StrContent(INTERRUPT_NOTIFICATION))]
    /\ pc' = "finally"
    /\ UNCHANGED <<first_turn, interrupt_requested, tracker_vars, app_vars, user_input, invocation, world_vars,
                   loop_vars, sub, count_vars, executed, req_at>>

\* except KeyboardInterrupt: ui.interrupted(), _append_interrupt_message()
InterruptHandler ==
    /\ pc = "interrupt"
    /\ ui_interrupted' = ui_interrupted + 1
    /\ messages' = Append(messages, Message("user", StrContent(INTERRUPT_NOTIFICATION)))
    /\ pc' = "finally"
    /\ UNCHANGED <<first_turn, interrupt_requested, tracker_vars, app_vars, user_input, invocation, world_vars,
                   loop_vars, sub, count_vars, executed, req_at>>

\* (variant: the error is also recorded in the conversation)
ErrorHandler_Record ==
    /\ pc = "error"
    /\ messages' = Append(messages, Message("assistant", <<TextBlock("error")>>))
    /\ pc' = "finally"
    /\ UNCHANGED <<first_turn, interrupt_requested, tracker_vars, app_vars, user_input, invocation, world_vars,
                   loop_vars, sub, count_vars, ui_interrupted, executed, req_at>>

\* run_agent: except Exception -> the error is shown
ErrorHandler ==
    /\ pc = "error"
    /\ pc' = "finally"
    /\ UNCHANGED <<agent_vars, tracker_vars, app_vars, user_input, invocation, world_vars, loop_vars, sub,
                   count_vars, ui_interrupted, executed, req_at>>

\* run_agent: finally
Finally ==
    /\ pc = "finally"
    /\ is_running' = FALSE
    /\ is_interrupting' = FALSE
    /\ response' = NoResponse
    /\ tool_index' = 0
    /\ results' = <<>>
    /\ used_task' = FALSE
    /\ pc' = "idle"
    /\ UNCHANGED <<agent_vars, tracker_vars, user_input, invocation, world_vars, sub, count_vars, ui_interrupted,
                   executed, req_at>>


\* ---------------------------------------------------------------- subagent
SubCalls == ToolCallsOf(sub.response.content)

\* execute_tool -> spawn_subagent for a known agent type: the subagent's
\* locals are set up (tools, messages, tool_count)
SpawnSubagent ==
    /\ pc = "dispatch"
    /\ LET tc == CurrentCall
           eff == ExecuteTool(tc.name, tc.input, TRUE, TRUE, FALSE, tasks)
       IN /\ eff.kind = "spawn"
          /\ tc.input.agent_type \in AgentTypes
          /\ sub' = [active |-> TRUE,
                     agent_type |-> tc.input.agent_type,
                     tools |-> GetToolsForAgent(tc.input.agent_type),
                     messages |-> SubInitialMessages(messages, tc.input.prompt),
                     response |-> NoResponse,
                     tool_index |-> 0,
                     results |-> <<>>,
                     tool_count |-> 0,
                     calls |-> 0]
          /\ executed' = executed \cup {<<"main", tc.name>>}
    /\ pc' = "sub_call"
    /\ UNCHANGED <<agent_vars, tracker_vars, app_vars, user_input, invocation, world_vars, loop_vars, count_vars,
                   ui_interrupted, req_at>>

\* The subagent's client.messages.create returns; a tool_use response starts
\* the subagent's tool loop, any other stop reason leaves its while loop.
SubModelCall ==
    /\ pc = "sub_call"
    /\ model_calls < MaxModelCalls
    /\ \E r \in SubResponses :
          /\ sub' = [sub EXCEPT !.response = [stop_reason |-> r.stop_reason,
                                              content |-> ContentOf(r, "sub", next_id)],
                                !.calls = @ + 1,
                                !.tool_index = 1,
                                !.results = <<>>]
          /\ next_id' = next_id + Len(r.tools)
          /\ pc' = IF r.stop_reason # "tool_use" THEN "sub_return" ELSE "sub_dispatch"
    /\ model_calls' = model_calls + 1
    /\ UNCHANGED <<agent_vars, tracker_vars, app_vars, user_input, invocation, world_vars, loop_vars, runs,
                   ui_interrupted, executed, req_at>>

\* The subagent's client.messages.create raises: spawn_subagent catches only
\* KeyboardInterrupt, so the exception leaves execute_tool and _agent_loop.
SubModelFail ==
    /\ pc = "sub_call"
    /\ model_calls < MaxModelCalls
    /\ model_calls' = model_calls + 1
    /\ sub' = NoSub
    /\ pc' = "error"
    /\ UNCHANGED <<agent_vars, tracker_vars, app_vars, user_input, invocation, world_vars, loop_vars, runs, next_id,
                   ui_interrupted, executed, req_at>>

\* One iteration of the subagent's tool loop: tool_count += 1, execute_tool
\* with spawn_subagent=None, the result collected; after the last tool the
\* assistant message and the results are appended to the subagent's messages.
\* (A dispatch that would hand the call to a nested subagent returns that
\* subagent's text.)
SubDispatchTool ==
    /\ pc = "sub_dispatch"
    /\ LET tc == SubCalls[sub.tool_index]
           eff == ExecuteTool(tc.name, tc.input, SubSpawnArg, SubTaskManagerArg, FALSE, tasks)
           out == IF eff.kind = "spawn" THEN "<nested subagent result>" ELSE eff.output
           res == Append(sub.results, ToolResultBlock(tc.id, out))
           last == sub.tool_index = Len(SubCalls)
       IN /\ sub' = IF eff.kind = "raise" THEN NoSub
                    ELSE IF last
                    THEN [sub EXCEPT !.tool_count = @ + 1,
                                     !.tool_index = 0,
                                     !.results = <<>>,
                                     !.response = NoResponse,
                                     !.messages = @ \o <<Message("assistant", sub.response.content),
                                                         Message("user", res)>>]
                    ELSE [sub EXCEPT !.tool_count = @ + 1,
                                     !.tool_index = @ + 1,
                                     !.results = res]
          /\ tasks' = eff.tasks
          /\ executed' = IF eff.ran THEN executed \cup {<<sub.agent_type, tc.name>>} ELSE executed
          /\ pc' = IF eff.kind = "raise" THEN "error"
                   ELSE IF last THEN "sub_call" ELSE "sub_dispatch"
    /\ UNCHANGED <<agent_vars, rounds_without_task, app_vars, user_input, invocation, world_vars, loop_vars,
                   count_vars, ui_interrupted, req_at>>

\* (variant: the subagent's conversation is appended to the parent's on return)
SubReturn_Leak ==
    /\ pc = "sub_return"
    /\ messages' = messages \o sub.messages
    /\ results' = Append(results, ToolResultBlock(CurrentCall.id,
                                     SpawnResult(FALSE, sub.tool_count, sub.response.content)))
    /\ sub' = NoSub
    /\ pc' = AfterTool(tool_index)
    /\ tool_index' = tool_index + 1
    /\ UNCHANGED <<first_turn, interrupt_requested, tracker_vars, app_vars, user_input, invocation, world_vars,
                   response, used_task, count_vars, ui_interrupted, executed, req_at>>

\* spawn_subagent returns its text; execute_tool returns it to _agent_loop,
\* which collects it as the Task call's result.
SubReturn ==
    /\ pc = "sub_return"
    /\ results' = Append(results, ToolResultBlock(CurrentCall.id,
                                     SpawnResult(FALSE, sub.tool_count, sub.response.content)))
    /\ sub' = NoSub
    /\ pc' = AfterTool(tool_index)
    /\ tool_index' = tool_index + 1
    /\ UNCHANGED <<agent_vars, tracker_vars, app_vars, user_input, invocation, world_vars, response, used_task,
                   count_vars, ui_interrupted, executed, req_at>>

\* ------------------------------------------------------------ specification
Next ==
    \/ Submit
    \/ ClearHistory
    \/ ActionInterrupt
    \/ RunAgentStart
    \/ ClearInterrupt
    \/ BuildMessage
    \/ PollBeforeCall
    \/ ModelCall
    \/ ModelFail
    \/ PollAfterCall
    \/ PollBeforeTool
    \/ DispatchTool
    \/ SpawnSubagent
    \/ SubModelCall
    \/ SubModelFail
    \/ SubDispatchTool
    \/ SubReturn
    \/ TurnEnd
    \/ InterruptHandler
    \/ ErrorHandler
    \/ Finally

Spec == Init /\ [][Next]_vars

\* ------------------------------------------------------- one long request
\* One input whose handling takes up to MaxTurns tool turns, each using Bash
\* alone or TaskUpdate alone, with no interrupt.
LongRunResponses ==
    { Resp("tool_use", <<>>, <<Bash>>),
      Resp("tool_use", <<>>, <<TaskUpdateOk>>) }

\* client.messages.create returns the next response of the long request
LongRunModelCall ==
    /\ pc = "call"
    /\ model_calls < MaxTurns
    /\ \E r \in LongRunResponses :
          /\ response' = [stop_reason |-> r.stop_reason, content |-> ContentOf(r, "main", next_id)]
          /\ next_id' = next_id + Len(r.tools)
    /\ model_calls' = model_calls + 1
    /\ pc' = "poll_b"
    /\ UNCHANGED <<agent_vars, tracker_vars, app_vars, user_input, invocation, world_vars, tool_index, results,
                   used_task, sub, runs, ui_interrupted, executed, req_at>>

NextLongRun ==
    \/ Submit
    \/ RunAgentStart
    \/ ClearInterrupt
    \/ BuildMessage
    \/ PollBeforeCall
    \/ LongRunModelCall
    \/ PollAfterCall
    \/ PollBeforeTool
    \/ DispatchTool
    \/ TurnEnd

SpecLongRun == Init /\ [][NextLongRun]_vars

\* ------------------------------------------------- execute_tool on its own
\* execute_tool called directly, one call after another against one tracker,
\* with every kind of input object: well formed, lacking a required key,
\* carrying a string where a number is read, naming no tool.

\* Task dicts as the model may send them
RawTasks ==
    << [content |-> "A", status |-> "pending", active_form |-> "Doing A"],
       [content |-> "A", status |-> "in_progress", active_form |-> "Doing A"],
       [content |-> " B ", status |-> "completed", active_form |-> "Doing B"],
       [content |-> "  ", status |-> "pending", active_form |-> "Doing"],
       [content |-> "A", status |-> "done", active_form |-> "Doing A"],
       [content |-> "A", status |-> "pending", active_form |-> " "],
       [content |-> "B", active_form |-> "Doing B"],
       [status |-> " in_progress", active_form |-> "Doing"] >>

\* The lists sent in a TaskUpdate: every list of up to MaxTaskListLen raw
\* tasks, and lists at and just over the tracker's limit
LongTaskLists ==
    { [j \in 1..n |-> RawTasks[k]] : n \in {MAX_TASKS, MAX_TASKS + 1}, k \in {1, 2} }

ShortTaskLists(n) == { [j \in 1..n |-> RawTasks[idx[j]]] : idx \in [1..n -> 1..Len(RawTasks)] }

DirectCalls ==
    << Bash,
       [name |-> "Bash", input |-> [cmd |-> "ls"]],
       Read,
       [name |-> "Read", input |-> [path |-> "f.txt", limit |-> [type |-> "int", numeric |-> TRUE]]],
       [name |-> "Read", input |-> [path |-> "f.txt", limit |-> [type |-> "str", numeric |-> FALSE]]],
       Write,
       [name |-> "Write", input |-> [path |-> "f.txt"]],
       [name |-> "Edit", input |-> [path |-> "f.txt", old_text |-> "a", new_text |-> "b"]],
       [name |-> "Glob", input |-> [pattern |-> "*.py"]],
       [name |-> "Grep", input |-> [pattern |-> "("]],
       [name |-> "WebSearch", input |-> [query |-> "q"]],
       [name |-> "WebReader", input |-> [url |-> "http://x", prompt |-> "p"]],
       [name |-> "Skill", input |-> [skill_name |-> "pdf"]],
       TaskTool("Explore"),
       TaskTool("Review"),
       [name |-> "Task", input |-> [agent_type |-> "Code"]],
       [name |-> "TaskUpdate", input |-> [list |-> <<>>]],
       [name |-> "UnknownTool", input |-> [x |-> "y"]] >>

\* One direct call and what comes back; the callback handed in as
\* spawn_subagent is the agent's own (its guard on the agent type, then a
\* subagent's text).
Invoke(c, has_spawn, has_task_manager, fails) ==
    LET eff == ExecuteTool(c.name, c.input, has_spawn, has_task_manager, fails, tasks)
        out == IF eff.kind # "spawn" THEN eff.output
               ELSE IF c.input.agent_type \notin AgentTypes
               THEN UnknownAgentError(c.input.agent_type)
               ELSE "<subagent result>"
    IN [invocation |-> [name |-> c.name, input |-> c.input, has_spawn |-> has_spawn,
                        has_task_manager |-> has_task_manager, fails |-> fails,
                        kind |-> IF eff.kind = "raise" THEN "raise" ELSE "return",
                        output |-> out],
        tasks |-> eff.tasks]

\* execute_tool called with one of the tool calls above
DirectToolCall ==
    /\ pc = "idle"
    /\ ~is_running
    /\ \E i \in 1..Len(DirectCalls), has_spawn \in BOOLEAN, has_task_manager \in BOOLEAN,
          fails \in BOOLEAN :
           /\ invocation' = Invoke(DirectCalls[i], has_spawn, has_task_manager, fails).invocation
           /\ tasks' = Invoke(DirectCalls[i], has_spawn, has_task_manager, fails).tasks
    /\ pc' = "direct"
    /\ UNCHANGED <<agent_vars, rounds_without_task, app_vars, user_input, world_vars, loop_vars,
                   sub, count_vars, ui_interrupted, executed, req_at>>

\* execute_tool called with a TaskUpdate carrying a task list
DirectTaskUpdate ==
    /\ pc = "idle"
    /\ ~is_running
    /\ \E raw \in LongTaskLists \cup UNION { ShortTaskLists(n) : n \in 0..MaxTaskListLen },
          has_task_manager \in BOOLEAN :
           LET c == [name |-> "TaskUpdate", input |-> [tasks |-> raw]]
           IN /\ invocation' = Invoke(c, FALSE, has_task_manager, FALSE).invocation
              /\ tasks' = Invoke(c, FALSE, has_task_manager, FALSE).tasks
    /\ pc' = "direct"
    /\ UNCHANGED <<agent_vars, rounds_without_task, app_vars, user_input, world_vars, loop_vars,
                   sub, count_vars, ui_interrupted, executed, req_at>>

\* The caller has looked at the result and goes on to its next call
DirectReturn ==
    /\ pc = "direct"
    /\ pc' = "idle"
    /\ invocation' = NoInvocation
    /\ UNCHANGED <<agent_vars, tracker_vars, app_vars, user_input, world_vars, loop_vars, sub,
                   count_vars, ui_interrupted, executed, req_at>>

NextTools ==
    \/ DirectToolCall
    \/ DirectTaskUpdate
    \/ DirectReturn

SpecTools == Init /\ [][NextTools]_vars

\* ------------------------------------------------------- the file tools
\* run_bash, run_read, run_write, run_edit, run_glob and run_grep called one after
\* another on one machine.  A location is the list of names from the root
\* directory; the workspace is /w, it holds a directory d and a symbolic link
\* out to the directory /etc outside it.

MaxPathLen == 2
MaxContentLen == 2

workdir == <<"w">>
OUTPUT_CAP == 50000

\* Python's `part in s` on strings
Contains(s, part) ==
    \E i \in 1..(Len(s) - Len(part) + 1) : SubSeq(s, i, i + Len(part) - 1) = part

\* output[:50000]
Truncate(s) == IF Len(s) > OUTPUT_CAP THEN SubSeq(s, 1, OUTPUT_CAP) ELSE s

IsRelativeTo(loc, dir) == Len(dir) <= Len(loc) /\ SubSeq(loc, 1, Len(dir)) = dir

\* A caller's path: absolute or not, and its components.  str(path):
RECURSIVE JoinParts(_)
JoinParts(parts) ==
    IF parts = <<>> THEN ""
    ELSE IF Len(parts) = 1 THEN parts[1]
    ELSE parts[1] \o "/" \o JoinParts(Tail(parts))
PathStr(path) == (IF path.abs THEN "/" ELSE "") \o JoinParts(path.parts)

\* Path.resolve(): "." dropped, ".." steps to the parent (the root is its own
\* parent), a symbolic link is replaced by where it points.
RECURSIVE ResolveFrom(_, _)
ResolveFrom(cur, parts) ==
    IF parts = <<>> THEN cur
    ELSE LET c == Head(parts)
             next == IF c = "." THEN cur
                     ELSE IF c = ".." THEN (IF cur = <<>> THEN cur ELSE SubSeq(cur, 1, Len(cur) - 1))
                     ELSE IF Append(cur, c) = <<"w", "out">> THEN <<"etc">>
                     ELSE Append(cur, c)
         IN ResolveFrom(next, Tail(parts))

\* (workdir / path).resolve(): an absolute path replaces workdir
Resolve(path) == ResolveFrom(IF path.abs THEN <<>> ELSE workdir, path.parts)

\* Variant: containment is tested on the joined path before it is resolved
SafePath_Unresolved(path) ==
    IF IsRelativeTo((IF path.abs THEN <<>> ELSE workdir) \o path.parts, workdir)
    THEN [ok |-> TRUE, loc |-> Resolve(path)]
    ELSE [ok |-> FALSE, error |-> "Path escapes workspace: " \o PathStr(path)]

SafePath(path) ==
    IF IsRelativeTo(Resolve(path), workdir)
    THEN [ok |-> TRUE, loc |-> Resolve(path)]
    ELSE [ok |-> FALSE, error |-> "Path escapes workspace: " \o PathStr(path)]

\* What the operating system finds at a location
IsDirectory(fs, loc) ==
    \/ loc \in {<<>>, <<"w">>, <<"w", "d">>, <<"etc">>}
    \/ \E l \in DOMAIN fs : Len(l) > Len(loc) /\ IsRelativeTo(l, loc)
FilesUnder(fs, loc) == { l \in DOMAIN fs : IsRelativeTo(l, loc) }

\* str.splitlines() and "\n".join(lines), on text whose only line break is \n
RECURSIVE SplitLines(_, _)
SplitLines(text, line) ==
    IF text = "" THEN (IF line = "" THEN <<>> ELSE <<line>>)
    ELSE IF SubSeq(text, 1, 1) = "\n"
         THEN <<line>> \o SplitLines(SubSeq(text, 2, Len(text)), "")
         ELSE SplitLines(SubSeq(text, 2, Len(text)), line \o SubSeq(text, 1, 1))
RECURSIVE JoinLines(_)
JoinLines(lines) ==
    IF lines = <<>> THEN ""
    ELSE IF Len(lines) = 1 THEN lines[1]
    ELSE lines[1] \o "\n" \o JoinLines(Tail(lines))

RunRead(path, fs) ==
    LET sp == SafePath(path)
    IN IF ~sp.ok THEN [output |-> "Error: " \o sp.error, files |-> fs, touched |-> {}]
       ELSE IF sp.loc \notin DOMAIN fs
       THEN [output |-> "Error: [Errno] " \o PathStr(path), files |-> fs, touched |-> {}]
       ELSE [output |-> Truncate(JoinLines(SplitLines(fs[sp.loc], ""))), files |-> fs,
             touched |-> {sp.loc}]

RunWrite(path, content, fs) ==
    LET sp == SafePath(path)
    IN IF ~sp.ok THEN [output |-> "Error: " \o sp.error, files |-> fs, touched |-> {}]
       ELSE IF \/ IsDirectory(fs, sp.loc)
               \/ \E l \in DOMAIN fs : Len(l) < Len(sp.loc) /\ IsRelativeTo(sp.loc, l)
       THEN [output |-> "Error: [Errno] " \o PathStr(path), files |-> fs, touched |-> {}]
       ELSE [output |-> "Wrote " \o ToString(Len(content)) \o " bytes to " \o PathStr(path),
             files |-> [l \in DOMAIN fs \cup {sp.loc} |-> IF l = sp.loc THEN content ELSE fs[l]],
             touched |-> {sp.loc}]

\* Variant: the last occurrence is the one replaced
ReplaceFirst_Last(content, old_text, new_text) ==
    LET i == CHOOSE k \in 1..(Len(content) - Len(old_text) + 1) :
                 /\ SubSeq(content, k, k + Len(old_text) - 1) = old_text
                 /\ \A j \in (k + 1)..(Len(content) - Len(old_text) + 1) :
                        SubSeq(content, j, j + Len(old_text) - 1) # old_text
    IN SubSeq(content, 1, i - 1) \o new_text \o SubSeq(content, i + Len(old_text), Len(content))

\* str.replace(old, new, 1)
ReplaceFirst(content, old_text, new_text) ==
    LET i == CHOOSE k \in 1..(Len(content) - Len(old_text) + 1) :
                 /\ SubSeq(content, k, k + Len(old_text) - 1) = old_text
                 /\ \A j \in 1..(k - 1) : SubSeq(content, j, j + Len(old_text) - 1) # old_text
    IN SubSeq(content, 1, i - 1) \o new_text \o SubSeq(content, i + Len(old_text), Len(content))

RunEdit(path, old_text, new_text, fs) ==
    LET sp == SafePath(path)
    IN IF ~sp.ok THEN [output |-> "Error: " \o sp.error, files |-> fs, touched |-> {}]
       ELSE IF sp.loc \notin DOMAIN fs
       THEN [output |-> "Error: [Errno] " \o PathStr(path), files |-> fs, touched |-> {}]
       ELSE IF ~Contains(fs[sp.loc], old_text)
       THEN [output |-> "Error: Text not found in " \o PathStr(path), files |-> fs,
             touched |-> {sp.loc}]
       ELSE [output |-> "Edited " \o PathStr(path),
             files |-> [fs EXCEPT ![sp.loc] = ReplaceFirst(fs[sp.loc], old_text, new_text)],
             touched |-> {sp.loc}]

\* safe_path(path or "."), then every file below the directory is listed
RunGlob(path, fs) ==
    LET sp == SafePath(IF path.parts = <<>> /\ ~path.abs THEN [path EXCEPT !.parts = <<".">>] ELSE path)
    IN IF ~sp.ok THEN [output |-> "Error: " \o sp.error, files |-> fs, touched |-> {}]
       ELSE [output |-> IF FilesUnder(fs, sp.loc) \ {sp.loc} = {} THEN "(no matches)"
                        ELSE Truncate("<matched files>"),
             files |-> fs, touched |-> FilesUnder(fs, sp.loc) \ {sp.loc}]

\* The pattern is compiled first; then safe_path(path or "."), and the file,
\* or every file below the directory, is read
RunGrep(pattern_compiles, path, fs) ==
    LET sp == SafePath(IF path.parts = <<>> /\ ~path.abs THEN [path EXCEPT !.parts = <<".">>] ELSE path)
    IN IF ~pattern_compiles
       THEN [output |-> "Error: Invalid regex pattern: (", files |-> fs, touched |-> {}]
       ELSE IF ~sp.ok THEN [output |-> "Error: " \o sp.error, files |-> fs, touched |-> {}]
       ELSE [output |-> IF FilesUnder(fs, sp.loc) = {} THEN "(no matches)"
                        ELSE Truncate("<matching lines>"),
             files |-> fs, touched |-> FilesUnder(fs, sp.loc)]

\* Variant: the list of refused substrings lacks "> /dev/"
RunBash_ShortList(args, outcome) ==
    IF "command" \notin DOMAIN args THEN [output |-> "Error: Command is required", started |-> FALSE]
    ELSE IF \E dangerous \in {"rm -rf /", "sudo", "shutdown", "reboot"} :
                Contains(args.command, dangerous)
    THEN [output |-> "Error: Dangerous command blocked", started |-> FALSE]
    ELSE [output |-> CASE outcome = "output" -> Truncate("<stdout and stderr>")
                       [] outcome = "silent" -> "(no output)"
                       [] outcome = "timeout" -> "Error: Command timed out (60s)"
                       [] OTHER -> "Error: <exception>",
          started |-> TRUE]

\* run_bash: command is None when args lacks it; outcome is what the
\* subprocess does once started
RunBash(args, outcome) ==
    IF "command" \notin DOMAIN args THEN [output |-> "Error: Command is required", started |-> FALSE]
    ELSE IF \E dangerous \in {"rm -rf /", "sudo", "shutdown", "reboot", "> /dev/"} :
                Contains(args.command, dangerous)
    THEN [output |-> "Error: Dangerous command blocked", started |-> FALSE]
    ELSE [output |-> CASE outcome = "output" -> Truncate("<stdout and stderr>")
                       [] outcome = "silent" -> "(no output)"
                       [] outcome = "timeout" -> "Error: Command timed out (60s)"
                       [] OTHER -> "Error: <exception>",
          started |-> TRUE]

\* The length of what execute_tool returns, from the length of the text the
\* handler has put together when it returns: the six handlers below slice
\* their normal result, [:50000]; error strings, "Wrote ...", "Edited ...",
\* the rendered task list, the subagent's text and a loaded skill are
\* returned as they are.
ReturnedLength(name, fails, produced) ==
    IF name \in {"Bash", "Read", "Glob", "Grep", "WebSearch", "WebReader"} /\ ~fails
    THEN (IF produced > OUTPUT_CAP THEN OUTPUT_CAP ELSE produced)
    ELSE produced

\* ---- the calls made
RECURSIVE Strings(_)
Strings(n) == IF n <= 0 THEN {""} ELSE Strings(n - 1) \cup { s \o c : s \in Strings(n - 1), c \in {"a", "\n"} }

Paths == { [abs |-> a, parts |-> s] : a \in BOOLEAN, s \in UNION { [1..n -> {"..", ".", "d", "f", "out", "w"}] : n \in 0..MaxPathLen } }
TargetPath == [abs |-> FALSE, parts |-> <<"f">>]

\* Paths written through: every path that leaves the workspace, and those that
\* name the workspace's directories and its files f and d/f
MutatingPaths ==
    { p \in Paths : \/ ~IsRelativeTo(Resolve(p), workdir)
                    \/ Resolve(p) \in {<<"w">>, <<"w", "d">>, <<"w", "f">>, <<"w", "d", "f">>} }

\* Write with every such path, and with every content for f
WriteCalls ==
    { [path |-> p, content |-> "a"] : p \in MutatingPaths }
    \cup { [path |-> TargetPath, content |-> c] : c \in Strings(MaxContentLen) }

EditCalls ==
    { [path |-> p, old_text |-> "a", new_text |-> ""] : p \in MutatingPaths }
    \cup { [path |-> TargetPath, old_text |-> o, new_text |-> n] :
              o \in Strings(MaxContentLen), n \in Strings(MaxContentLen - 1) }

DirectRead ==
    /\ pc = "idle"
    /\ ~is_running
    /\ \E p \in Paths :
           /\ invocation' = [name |-> "Read", input |-> [path |-> p],
                             output |-> RunRead(p, files).output,
                             touched |-> RunRead(p, files).touched]
           /\ files' = RunRead(p, files).files
    /\ pc' = "direct"
    /\ UNCHANGED <<agent_vars, tracker_vars, app_vars, user_input, web, skills, config, workers,
                   loop_vars,
                   sub, count_vars, ui_interrupted, executed, req_at>>

DirectWrite ==
    /\ pc = "idle"
    /\ ~is_running
    /\ \E c \in WriteCalls :
           /\ invocation' = [name |-> "Write", input |-> c,
                             output |-> RunWrite(c.path, c.content, files).output,
                             touched |-> RunWrite(c.path, c.content, files).touched]
           /\ files' = RunWrite(c.path, c.content, files).files
    /\ pc' = "direct"
    /\ UNCHANGED <<agent_vars, tracker_vars, app_vars, user_input, web, skills, config, workers,
                   loop_vars,
                   sub, count_vars, ui_interrupted, executed, req_at>>

\* (files stay within MaxContentLen characters)
DirectEdit ==
    /\ pc = "idle"
    /\ ~is_running
    /\ \E c \in EditCalls :
           /\ \A l \in DOMAIN RunEdit(c.path, c.old_text, c.new_text, files).files :
                  Len(RunEdit(c.path, c.old_text, c.new_text, files).files[l]) <= MaxContentLen
           /\ invocation' = [name |-> "Edit", input |-> c,
                             output |-> RunEdit(c.path, c.old_text, c.new_text, files).output,
                             touched |-> RunEdit(c.path, c.old_text, c.new_text, files).touched]
           /\ files' = RunEdit(c.path, c.old_text, c.new_text, files).files
    /\ pc' = "direct"
    /\ UNCHANGED <<agent_vars, tracker_vars, app_vars, user_input, web, skills, config, workers,
                   loop_vars,
                   sub, count_vars, ui_interrupted, executed, req_at>>

DirectGlob ==
    /\ pc = "idle"
    /\ ~is_running
    /\ \E p \in Paths :
           /\ invocation' = [name |-> "Glob", input |-> [path |-> p],
                             output |-> RunGlob(p, files).output,
                             touched |-> RunGlob(p, files).touched]
           /\ files' = RunGlob(p, files).files
    /\ pc' = "direct"
    /\ UNCHANGED <<agent_vars, tracker_vars, app_vars, user_input, web, skills, config, workers,
                   loop_vars,
                   sub, count_vars, ui_interrupted, executed, req_at>>

DirectGrep ==
    /\ pc = "idle"
    /\ ~is_running
    /\ \E p \in Paths, pattern_compiles \in BOOLEAN :
           /\ invocation' = [name |-> "Grep",
                             input |-> [path |-> p, pattern_compiles |-> pattern_compiles],
                             output |-> RunGrep(pattern_compiles, p, files).output,
                             touched |-> RunGrep(pattern_compiles, p, files).touched]
           /\ files' = RunGrep(pattern_compiles, p, files).files
    /\ pc' = "direct"
    /\ UNCHANGED <<agent_vars, tracker_vars, app_vars, user_input, web, skills, config, workers,
                   loop_vars,
                   sub, count_vars, ui_interrupted, executed, req_at>>

BashCommands ==
    {"", "ls", "rm -rf /", "rm -rf /tmp/x", "rm -r -f /", "rm  -rf /", "sudo ls", "ls; sudo ls",
     "SUDO ls", "echo sudoku", "shutdown now", "reboot", "ls > /dev/null", "ls >/dev/null"}

DirectBash ==
    /\ pc = "idle"
    /\ ~is_running
    /\ \E args \in { [command |-> c] : c \in BashCommands } \cup { [timeout |-> 60] },
          outcome \in {"output", "silent", "timeout", "exception"} :
           invocation' = [name |-> "Bash", input |-> args,
                          output |-> RunBash(args, outcome).output,
                          started |-> RunBash(args, outcome).started]
    /\ pc' = "direct"
    /\ UNCHANGED <<agent_vars, tracker_vars, app_vars, user_input, world_vars, loop_vars,
                   sub, count_vars, ui_interrupted, executed, req_at>>

\* execute_tool for a tool whose handler has much to say
DirectLongOutput ==
    /\ pc = "idle"
    /\ ~is_running
    /\ \E tool \in HandlerTools \cup {"Task", "TaskUpdate"}, fails \in BOOLEAN,
          produced \in {0, 1, OUTPUT_CAP - 1, OUTPUT_CAP, OUTPUT_CAP + 1, 2 * OUTPUT_CAP} :
           invocation' = [name |-> "execute_tool", tool |-> tool, fails |-> fails,
                          produced |-> produced,
                          length |-> ReturnedLength(tool, fails, produced)]
    /\ pc' = "direct"
    /\ UNCHANGED <<agent_vars, tracker_vars, app_vars, user_input, world_vars, loop_vars,
                   sub, count_vars, ui_interrupted, executed, req_at>>

NextWorkspace ==
    \/ DirectLongOutput
    \/ DirectBash
    \/ DirectRead
    \/ DirectWrite
    \/ DirectEdit
    \/ DirectGlob
    \/ DirectGrep
    \/ DirectReturn

SpecWorkspace == Init /\ [][NextWorkspace]_vars


\* --------------------------------------------------------------- WebReader
\* run_web_fetch called again and again in one process: for one url whose
\* page changes with every GET and may fail to load, and in between for other
\* urls, each fetched once, while the clock moves on.

MaxTargetCalls == 2
MaxOtherUrls == 128
MaxClock == 900
MaxOthersBeforeTick == 1

LRU_MAXSIZE == 128
CACHE_SECONDS == 900
TargetUrl == "https://u"

\* Variant: no cache, every call goes upstream
FetchCached_Uncached(cache, url, cache_time, page, fails) ==
    IF fails THEN [raised |-> TRUE, cache |-> cache, get |-> TRUE]
    ELSE [raised |-> FALSE, value |-> page, cache |-> cache, get |-> TRUE]

\* functools.lru_cache(maxsize=128) around fetch_uncached: a stored key is
\* served and becomes the most recently used; otherwise the page is fetched,
\* and stored unless the fetch raised, the least recently used entry making
\* room in a full cache.
FetchCached(cache, url, cache_time, page, fails) ==
    IF \E i \in 1..Len(cache) : cache[i].key = <<url, cache_time>>
    THEN LET i == CHOOSE k \in 1..Len(cache) : cache[k].key = <<url, cache_time>>
         IN [raised |-> FALSE, value |-> cache[i].value,
             cache |-> Append(SubSeq(cache, 1, i - 1) \o SubSeq(cache, i + 1, Len(cache)), cache[i]),
             get |-> FALSE]
    ELSE IF fails THEN [raised |-> TRUE, cache |-> cache, get |-> TRUE]
    ELSE [raised |-> FALSE, value |-> page,
          cache |-> Append(IF Len(cache) >= LRU_MAXSIZE THEN Tail(cache) ELSE cache,
                           [key |-> <<url, cache_time>>, value |-> page]),
          get |-> TRUE]

\* (variant: the cache key does not follow the clock)
RunWebFetch_OneBucket(w, url, page, fails) ==
    LET r == FetchCached(w.cache, url, 0, page, fails)
    IN [output |-> IF r.raised THEN "Fetch failed: <error>" ELSE Truncate(r.value),
        cache |-> r.cache, get |-> r.get]

\* run_web_fetch: cache_time = int(time.time() / 900); content[:50000], or
\* "Fetch failed: ..." when the fetch raised
RunWebFetch(w, url, page, fails) ==
    LET r == FetchCached(w.cache, url, w.now \div CACHE_SECONDS, page, fails)
    IN [output |-> IF r.raised THEN "Fetch failed: <error>" ELSE Truncate(r.value),
        cache |-> r.cache, get |-> r.get]

\* WebReader for TargetUrl; the page a GET brings is the one numbered by the GET
WebFetchTarget ==
    /\ pc = "idle"
    /\ ~is_running
    /\ Len(web.log) < MaxTargetCalls
    /\ \E fails \in BOOLEAN :
           LET r == RunWebFetch(web, TargetUrl, "page " \o ToString(web.gets + 1), fails)
           IN web' = [web EXCEPT !.cache = r.cache,
                                 !.gets = IF r.get THEN @ + 1 ELSE @,
                                 !.log = Append(@, [bucket |-> web.now \div CACHE_SECONDS,
                                                    output |-> r.output,
                                                    get |-> r.get,
                                                    gets |-> IF r.get THEN web.gets + 1 ELSE web.gets,
                                                    others |-> web.others])]
    /\ UNCHANGED <<agent_vars, tracker_vars, app_vars, pc, user_input, invocation, files, config, workers,
                   skills, loop_vars, sub, count_vars, ui_interrupted, executed, req_at>>

\* WebReader for a url not fetched before, between two calls for TargetUrl
WebFetchOther ==
    /\ pc = "idle"
    /\ ~is_running
    /\ web.others < MaxOtherUrls
    /\ web.log # <<>>
    /\ Len(web.log) < MaxTargetCalls
    /\ LET r == RunWebFetch(web, "https://o" \o ToString(web.others + 1), "other page", FALSE)
       IN web' = [web EXCEPT !.cache = r.cache, !.others = @ + 1]
    /\ UNCHANGED <<agent_vars, tracker_vars, app_vars, pc, user_input, invocation, files, config, workers,
                   skills, loop_vars, sub, count_vars, ui_interrupted, executed, req_at>>

\* time.time() moves into the next quarter of an hour (early in the run)
Tick ==
    /\ web.now + CACHE_SECONDS <= MaxClock
    /\ web.others <= MaxOthersBeforeTick
    /\ web' = [web EXCEPT !.now = @ + CACHE_SECONDS]
    /\ UNCHANGED <<agent_vars, tracker_vars, app_vars, pc, user_input, invocation, files, config, workers,
                   skills, loop_vars, sub, count_vars, ui_interrupted, executed, req_at>>

NextWeb ==
    \/ WebFetchTarget
    \/ WebFetchOther
    \/ Tick

SpecWeb == Init /\ [][NextWeb]_vars

\* ------------------------------------------------------------- SkillLoader
\* SkillLoader(workdir, plugins_dir) constructed over what is on disk: the
\* workspace's .claude/skills and the skills directory of each installed
\* plugin.  A directory is the list of its skill folders in iterdir() order;
\* a folder is the name its SKILL.md declares, or "-" when it has no SKILL.md
\* or one that parse_skill rejects.

MaxLocalSkills == 2
MaxPluginSkills == 1
MaxPlugins == 2

\* _load_skills_from_dir, from folder i on
RECURSIVE LoadSkillsFromDir(_, _, _, _)
LoadSkillsFromDir(index, skills_dir, origin, i) ==
    IF i > Len(skills_dir) THEN index
    ELSE LoadSkillsFromDir(
             IF skills_dir[i] # "-" /\ ~\E k \in 1..Len(index) : index[k].name = skills_dir[i]
             THEN Append(index, [name |-> skills_dir[i], origin |-> origin, folder |-> i])
             ELSE index,
             skills_dir, origin, i + 1)

\* _load_plugin_skills, from plugin p on
RECURSIVE LoadPluginSkills(_, _, _)
LoadPluginSkills(index, plugins, p) ==
    IF p > Len(plugins) THEN index
    ELSE LoadPluginSkills(LoadSkillsFromDir(index, plugins[p], "plugin " \o ToString(p), 1),
                          plugins, p + 1)

\* Variant: the plugins are loaded before the local directory
LoadSkills_PluginsFirst(local, plugins) ==
    LoadSkillsFromDir(LoadPluginSkills(<<>>, plugins, 1), local, "local", 1)

\* load_skills: the local directory first, then the plugins
LoadSkills(local, plugins) ==
    LoadPluginSkills(LoadSkillsFromDir(<<>>, local, "local", 1), plugins, 1)

\* Directories of up to n folders
SkillDirs(n) == UNION { [1..k -> {"pdf", "git", "-"}] : k \in 0..n }

\* SkillLoader.__init__
SkillLoaderInit ==
    /\ ~skills.loaded
    /\ \E local \in SkillDirs(MaxLocalSkills),
          plugins \in UNION { [1..k -> SkillDirs(MaxPluginSkills)] : k \in 0..MaxPlugins } :
           skills' = [loaded |-> TRUE, local |-> local, plugins |-> plugins,
                      index |-> LoadSkills(local, plugins)]
    /\ UNCHANGED <<agent_vars, tracker_vars, app_vars, pc, user_input, invocation, files, config, workers,
                   web, loop_vars, sub, count_vars, ui_interrupted, executed, req_at>>

NextSkills == SkillLoaderInit

SpecSkills == Init /\ [][NextSkills]_vars

\* ------------------------------------------------------------- AgentConfig
\* AgentConfig.from_settings over what it finds: the settings file (missing,
\* not parsable, or a JSON object whose env object gives some keys a string
\* or null) and the process environment (each key unset or a string).

DEFAULT_MAX_THINKING_TOKENS == 31999
MIN_MAX_THINKING_TOKENS == 1024

\* _parse_config: (env object, error message)
ParseConfig(file) ==
    IF file.state = "ok" THEN [env |-> file.env, error |-> "none"]
    ELSE IF file.state = "malformed"
    THEN [env |-> <<>>, error |-> "Error parsing config file at ~/.claude/settings.json"]
    ELSE [env |-> <<>>, error |-> "none"]

\* Variant: the environment variable is looked at before the settings file
GetConfigValue_EnvironFirst(env_config, environ, key, default) ==
    IF environ[key].kind = "str" THEN environ[key].value
    ELSE IF key \in DOMAIN env_config /\ env_config[key].kind # "null" THEN env_config[key].value
    ELSE default

\* _get_config_value: env_config.get(key) unless None, else os.getenv(key, default)
GetConfigValue(env_config, environ, key, default) ==
    IF key \in DOMAIN env_config /\ env_config[key].kind # "null" THEN env_config[key].value
    ELSE IF environ[key].kind = "str" THEN environ[key].value
    ELSE default

\* int(str): blanks around, an optional sign, then decimal digits only
ParseInt(str) ==
    LET s == Strip(str)
        signed == Len(s) > 0 /\ SubSeq(s, 1, 1) \in {"-", "+"}
        digits == IF signed THEN SubSeq(s, 2, Len(s)) ELSE s
        DigitOf(c) == CASE c = "0" -> 0 [] c = "1" -> 1 [] c = "2" -> 2 [] c = "3" -> 3
                        [] c = "4" -> 4 [] c = "5" -> 5 [] c = "6" -> 6 [] c = "7" -> 7
                        [] c = "8" -> 8 [] c = "9" -> 9 [] OTHER -> -1
        RECURSIVE ValueOf(_, _)
        ValueOf(k, acc) == IF k > Len(digits) THEN acc
                           ELSE ValueOf(k + 1, 10 * acc + DigitOf(SubSeq(digits, k, k)))
    IN IF digits = "" \/ \E k \in 1..Len(digits) : DigitOf(SubSeq(digits, k, k)) < 0
       THEN [ok |-> FALSE]
       ELSE [ok |-> TRUE,
             value |-> IF signed /\ SubSeq(s, 1, 1) = "-" THEN -ValueOf(1, 0) ELSE ValueOf(1, 0)]

\* Variant: min_value is not applied
GetConfigIntValue_NoMinimum(env_config, environ, key, default, min_value) ==
    LET str_value == GetConfigValue(env_config, environ, key, "")
    IN IF str_value = "" THEN default
       ELSE IF ~ParseInt(str_value).ok THEN default
       ELSE ParseInt(str_value).value

\* _get_config_int_value
GetConfigIntValue(env_config, environ, key, default, min_value) ==
    LET str_value == GetConfigValue(env_config, environ, key, "")
    IN IF str_value = "" THEN default
       ELSE IF ~ParseInt(str_value).ok THEN default
       ELSE IF ParseInt(str_value).value < min_value THEN min_value
       ELSE ParseInt(str_value).value

\* What a settings file's env object and the environment may hold for a key
Str(v) == [kind |-> "str", value |-> v]
FileValues(key) ==
    {[kind |-> "absent"], [kind |-> "null"]}
    \cup { Str(v) : v \in CASE key = "MAX_THINKING_TOKENS"
                              -> {"", "abc", "-5", "0", "1023", "1024", "40000", " 2048 ", "12.5"}
                            [] key = "ANTHROPIC_BASE_URL" -> {"https://file"}
                            [] OTHER -> {"", "from file"} }
EnvironValues(key) ==
    {[kind |-> "unset"]}
    \cup { Str(v) : v \in CASE key = "MAX_THINKING_TOKENS" -> {"", "x", "512", "2048"}
                            [] key = "ANTHROPIC_BASE_URL" -> {"https://environ"}
                            [] OTHER -> {"", "from environ"} }
ConfigKeys == {"ANTHROPIC_AUTH_TOKEN", "ANTHROPIC_BASE_URL", "ANTHROPIC_MODEL", "MAX_THINKING_TOKENS"}

\* AgentConfig.from_settings
FromSettings ==
    /\ ~config.loaded
    /\ \E state \in {"missing", "malformed", "ok"},
          f1 \in FileValues("ANTHROPIC_AUTH_TOKEN"), f2 \in FileValues("ANTHROPIC_BASE_URL"),
          f3 \in FileValues("ANTHROPIC_MODEL"), f4 \in FileValues("MAX_THINKING_TOKENS"),
          e1 \in EnvironValues("ANTHROPIC_AUTH_TOKEN"), e2 \in EnvironValues("ANTHROPIC_BASE_URL"),
          e3 \in EnvironValues("ANTHROPIC_MODEL"), e4 \in EnvironValues("MAX_THINKING_TOKENS") :
           /\ state # "ok" => \A f \in {f1, f2, f3, f4} : f.kind = "absent"
           /\ LET given == [k \in ConfigKeys |->
                               CASE k = "ANTHROPIC_AUTH_TOKEN" -> f1 [] k = "ANTHROPIC_BASE_URL" -> f2
                                 [] k = "ANTHROPIC_MODEL" -> f3 [] OTHER -> f4]
                  environ == [k \in ConfigKeys |->
                                 CASE k = "ANTHROPIC_AUTH_TOKEN" -> e1 [] k = "ANTHROPIC_BASE_URL" -> e2
                                   [] k = "ANTHROPIC_MODEL" -> e3 [] OTHER -> e4]
                  file == [state |-> state,
                           env |-> [k \in { x \in ConfigKeys : given[x].kind # "absent" } |-> given[k]]]
                  env_config == ParseConfig(file).env
              IN config' =
                   [loaded |-> TRUE, file |-> file, environ |-> environ,
                    model |-> GetConfigValue(env_config, environ, "ANTHROPIC_MODEL",
                                             "claude-opus-4-5-20251101"),
                    max_thinking_tokens |->
                        GetConfigIntValue(env_config, environ, "MAX_THINKING_TOKENS",
                                          DEFAULT_MAX_THINKING_TOKENS, MIN_MAX_THINKING_TOKENS),
                    api_key |-> GetConfigValue(env_config, environ, "ANTHROPIC_AUTH_TOKEN", ""),
                    base_url |-> GetConfigValue(env_config, environ, "ANTHROPIC_BASE_URL", ""),
                    config_error |-> ParseConfig(file).error]
    /\ UNCHANGED <<agent_vars, tracker_vars, app_vars, pc, user_input, invocation, files, workers,
                   web, skills, loop_vars, sub, count_vars, ui_interrupted, executed, req_at>>

NextConfig == FromSettings

SpecConfig == Init /\ [][NextConfig]_vars

\* ===================================================== submissions and workers
\* How many inputs are submitted in a behaviour
MaxSubmits == 3

\* on_input_submit with a message: the input is refused when _is_running is
\* set; otherwise run_agent is called, which starts a thread worker.  The
\* worker is exclusive: the earlier workers are cancelled, which keeps a worker
\* whose thread has not begun from running and leaves a thread that has begun
\* running (run_agent never looks at its cancelled flag); which of the two a
\* worker not yet at its first statement meets is not decided by this code.
OnInputSubmit ==
    /\ Len(workers) < MaxSubmits
    /\ \E u \in UserInputs :
          IF is_running
          THEN workers' = Append(workers, [state |-> "rejected", input |-> u])
          ELSE \E begun \in SUBSET {i \in 1..Len(workers) : workers[i].state = "started"} :
                  workers' = Append([i \in 1..Len(workers) |->
                                        IF workers[i].state = "started" /\ i \notin begun
                                        THEN [workers[i] EXCEPT !.state = "cancelled"]
                                        ELSE workers[i]],
                                    [state |-> "started", input |-> u])
    /\ UNCHANGED <<agent_vars, tracker_vars, app_vars, pc, user_input, invocation, files, web, skills,
                   config, loop_vars, sub, count_vars, ui_interrupted, executed, req_at>>

\* One step of a run_agent worker: _is_running = True; Agent.run's
\* _clear_interrupt, _build_message and _agent_loop, here with a model that
\* answers with text and no tool call; the finally clause.
RunAgentWorker ==
    \E i \in 1..Len(workers) :
       /\ workers[i].state \in {"started", "clear", "build", "call", "finally"}
       /\ workers' = [workers EXCEPT ![i].state =
                         CASE workers[i].state = "started" -> "clear"
                           [] workers[i].state = "clear" -> "build"
                           [] workers[i].state = "build" -> "call"
                           [] workers[i].state = "call" -> "finally"
                           [] workers[i].state = "finally" -> "done"]
       /\ is_running' = (IF workers[i].state = "started" THEN TRUE
                         ELSE IF workers[i].state = "finally" THEN FALSE ELSE is_running)
       /\ is_interrupting' = (IF workers[i].state = "finally" THEN FALSE ELSE is_interrupting)
       /\ interrupt_requested' = (IF workers[i].state = "clear" THEN FALSE ELSE interrupt_requested)
       /\ first_turn' = (IF workers[i].state = "build" THEN FALSE ELSE first_turn)
       /\ \E md \in (IF first_turn /\ workers[i].state = "build" THEN BOOLEAN ELSE {FALSE}) :
             messages' =
                CASE workers[i].state = "build" ->
                        Append(messages,
                               Message("user", BuildContent(first_turn, FALSE, md, workers[i].input)))
                  [] workers[i].state = "call" ->
                        Append(messages,
                               Message("assistant",
                                       ContentOf(Resp("end_turn", <<MainText>>, <<>>), "main", next_id)))
                  [] OTHER -> messages
       /\ UNCHANGED <<tracker_vars, pc, user_input, invocation, files, web, skills, config,
                      loop_vars, sub, count_vars, ui_interrupted, executed, req_at>>

NextWorkers == OnInputSubmit \/ RunAgentWorker

SpecWorkers == Init /\ [][NextWorkers]_vars

\* ======================================================= Grep, content mode
\* How many files are searched, and the largest offset and head_limit passed
MaxGrepFiles == 3
MaxOffset == 2
MaxHeadLimit == 2

\* The texts of the files searched: no line, and lines that the pattern "a"
\* matches or not
GrepFileTexts == {"", "a", "b\na", "a\na"}

\* run_grep, the loop over the lines of one file (n = True): one entry
\* "path:line_num:line" for each line the pattern is found in
MatchesOf(file_path, text, pattern) ==
    LET lines == SplitLines(text, "")
        found == SelectSeq([i \in 1..Len(lines) |-> i], LAMBDA i : Contains(lines[i], pattern))
    IN [j \in 1..Len(found) |-> file_path \o ":" \o ToString(found[j]) \o ":" \o lines[found[j]]]

\* (variant: the search stops once head_limit matches are collected)
StopEarly_NoOffset(content_matches, head_limit, offset) ==
    head_limit > 0 /\ Len(content_matches) >= head_limit

\* run_grep, after each file: stop early if reached head_limit (excluding offset)
StopEarly(content_matches, head_limit, offset) ==
    head_limit > 0 /\ Len(content_matches) >= head_limit + offset

\* run_grep, the loop over the files, in the order they were listed
RECURSIVE CollectMatches(_, _, _, _, _)
CollectMatches(texts, i, content_matches, head_limit, offset) ==
    IF i > Len(texts) THEN content_matches
    ELSE LET collected == content_matches \o MatchesOf("f" \o ToString(i), texts[i], "a")
         IN IF StopEarly(collected, head_limit, offset) THEN collected
            ELSE CollectMatches(texts, i + 1, collected, head_limit, offset)

\* run_grep in content mode: the entries joined, lines_list[offset:] when
\* offset > 0, lines_list[:head_limit] when head_limit > 0, the 50,000 cut,
\* "(no matches)" for an empty result
RunGrepContent(texts, head_limit, offset) ==
    LET joined == JoinLines(CollectMatches(texts, 1, <<>>, head_limit, offset))
        skipped == IF offset > 0
                   THEN JoinLines(SubSeq(SplitLines(joined, ""), offset + 1, Len(SplitLines(joined, ""))))
                   ELSE joined
        limited == IF head_limit > 0
                   THEN JoinLines(SubSeq(SplitLines(skipped, ""), 1,
                                         IF head_limit < Len(SplitLines(skipped, ""))
                                         THEN head_limit ELSE Len(SplitLines(skipped, ""))))
                   ELSE skipped
    IN IF limited = "" THEN "(no matches)" ELSE Truncate(limited)

\* Grep called in content mode over the files f1, f2, ... with pattern "a"
DirectGrepContent ==
    /\ pc = "idle"
    /\ ~is_running
    /\ \E n \in 0..MaxGrepFiles, head_limit \in 0..MaxHeadLimit, offset \in 0..MaxOffset :
          \E texts \in [1..n -> GrepFileTexts] :
             invocation' = [name |-> "Grep",
                            input |-> [texts |-> texts, head_limit |-> head_limit, offset |-> offset],
                            output |-> RunGrepContent(texts, head_limit, offset)]
    /\ pc' = "direct"
    /\ UNCHANGED <<agent_vars, tracker_vars, app_vars, user_input, world_vars, loop_vars, sub,
                   count_vars, ui_interrupted, executed, req_at>>

NextGrep == DirectGrepContent \/ DirectReturn

SpecGrep == Init /\ [][NextGrep]_vars

\* ================================================================== claims
ToolUseIds(content) ==
    [i \in 1..Len(ToolCallsOf(content)) |-> ToolCallsOf(content)[i].id]
ToolResultIds(content) ==
    [i \in 1..Len(SelectSeq(content, IsToolResult)) |-> SelectSeq(content, IsToolResult)[i].tool_use_id]
Last(s) == s[Len(s)]
InterruptMessage == Message("user", StrContent(INTERRUPT_NOTIFICATION))

\* Every assistant message of ms that holds tool-use blocks is immediately
\* followed by a user message whose tool-results carry the same ids in the
\* same order.
ToolUsesAnswered(ms) ==
    \A i \in 1..Len(ms) :
        (ms[i].role = "assistant" /\ ToolCallsOf(ms[i].content) # <<>>)
        => /\ i < Len(ms)
           /\ ms[i + 1].role = "user"
           /\ ToolResultIds(ms[i + 1].content) = ToolUseIds(ms[i].content)

\* C1: whenever a model call is about to be issued, every assistant message of
\* the conversation that holds tool-use blocks is immediately followed by a
\* user message with exactly one tool-result per tool-use id, in the same
\* order, whatever the stop reasons of the responses were.
C1_ToolUsesAnsweredAtCall == (pc = "call") => ToolUsesAnswered(messages)

\* C2: an interrupt requested by action_interrupt during a run (the
\* application shows "Interrupting...") is honoured at the loop's next polling
\* point: that poll leaves the loop through the interrupt handler.
C2_InterruptHonouredAtNextPoll ==
    [][(is_interrupting /\ pc \in {"poll_a", "poll_b", "poll_c"} /\ pc' # pc)
       => pc' = "interrupt"]_vars

\* The flag was raised after the model call of the current turn returned and
\* before the loop's interrupt check that precedes its first tool ...
RaisedBeforeFirstToolCheck ==
    req_at.pc = "poll_b" \/ (req_at.pc = "poll_c" /\ req_at.idx = 1)
\* ... or after that check, the first tool not yet dispatched.
RaisedBeforeFirstToolDispatch ==
    RaisedBeforeFirstToolCheck \/ (req_at.pc = "dispatch" /\ req_at.idx = 1)

\* No tool of the current turn has been executed or is being executed.
NoToolOfTurnExecuted == results = <<>> /\ ~sub.active

\* C3 (as stated): if the interrupt flag is set after a model call returns and
\* before the first tool of that response is dispatched, zero tools of that
\* turn are executed.
C3_NoToolAfterFlagBeforeDispatch ==
    (interrupt_requested /\ RaisedBeforeFirstToolDispatch) => NoToolOfTurnExecuted

\* C3 (amended): if the interrupt flag is set after a model call returns and
\* before the loop's interrupt check that precedes the first tool dispatch,
\* zero tools of that turn are executed.
C3_NoToolAfterFlagBeforeCheck ==
    (interrupt_requested /\ RaisedBeforeFirstToolCheck) => NoToolOfTurnExecuted

\* C3 witness: the flag was raised in that window of a turn that had tools to
\* run, and the loop has left through the interrupt handler.
C3_Witness ==
    /\ interrupt_requested /\ RaisedBeforeFirstToolCheck
    /\ pc = "finally"
    /\ response.stop_reason = "tool_use"
    /\ ToolCallsOf(response.content) # <<>>
    /\ Last(messages) = InterruptMessage


\* The flag was raised after the tools of a turn had completed and before the
\* loop's next interrupt check (the check at the top of the loop).
RaisedBetweenTurns == req_at.pc \in {"turn_end", "poll_a"}

\* C4: when an interrupt is requested after the tools of a turn have completed
\* (in particular after the single tool of a one-tool response) and before the
\* loop's next check, no further model call is made, and when the run has
\* ended the conversation's final message is the task_interrupted user
\* message and ui.interrupted() was invoked exactly once in that run.
C4_InterruptBetweenTurns ==
    (interrupt_requested /\ RaisedBetweenTurns)
    => /\ model_calls = req_at.calls
       /\ pc \in {"finally", "idle", "started"}
          => (Last(messages) = InterruptMessage /\ ui_interrupted = 1)

\* C4 witness: the first response held one tool-use block, the interrupt was
\* requested after that tool completed, and the run has ended.
C4_Witness ==
    /\ interrupt_requested
    /\ req_at.pc = "turn_end"
    /\ pc = "finally"
    /\ Len(messages) = 4
    /\ Len(ToolCallsOf(messages[2].content)) = 1
    /\ Last(messages) = InterruptMessage
    /\ ui_interrupted = 1

\* C5: an interrupt requested while the subagent's model call is in flight is
\* seen by the subagent's check after that call, so the subagent dispatches no
\* tool after the request.
C5_SubagentStopsAtNextPoll ==
    (interrupt_requested /\ req_at.pc = "sub_call" /\ sub.active)
    => sub.tool_count = req_at.sub_tools

\* the tool-use block with the given id in the subagent's conversation or
\* current response has the given name
SubToolNamed(id, name) ==
    \/ \E i \in 1..Len(sub.messages) : \E j \in 1..Len(sub.messages[i].content) :
          LET b == sub.messages[i].content[j]
          IN IsToolUse(b) /\ b.id = id /\ b.name = name
    \/ \E j \in 1..Len(sub.response.content) :
          LET b == sub.response.content[j]
          IN IsToolUse(b) /\ b.id = id /\ b.name = name

\* every result the subagent has collected for a tool-use of that name is
\* that string
SubResultsFor(name, output) ==
    /\ \A i \in 1..Len(sub.messages) : \A j \in 1..Len(sub.messages[i].content) :
          LET b == sub.messages[i].content[j]
          IN (IsToolResult(b) /\ SubToolNamed(b.tool_use_id, name)) => b.content = output
    /\ \A j \in 1..Len(sub.results) :
          SubToolNamed(sub.results[j].tool_use_id, name) => sub.results[j].content = output

\* the subagent's conversation holds a result with that content
SubHasResult(output) ==
    \E i \in 1..Len(sub.messages) : \E j \in 1..Len(sub.messages[i].content) :
        LET b == sub.messages[i].content[j]
        IN IsToolResult(b) /\ b.content = output

\* C6: subagent recursion depth is at most 1: the Task tool is in no
\* subagent's tool list, no tool call executed inside a subagent starts a
\* subagent, and a Task tool-use emitted by a subagent is answered with the
\* "not available" error string.
C6_NoNestedSubagent ==
    /\ \A t \in AgentTypes : ~InSeq("Task", GetToolsForAgent(t))
    /\ \A e \in executed : e[1] \in AgentTypes => e[2] # "Task"
    /\ sub.active
       => /\ ~InSeq("Task", sub.tools)
          /\ SubResultsFor("Task", "Error: Task tool not available in this context")

\* C6 witness: a running subagent has emitted a Task tool-use and got its answer.
C6_Witness ==
    /\ sub.active
    /\ SubHasResult("Error: Task tool not available in this context")

\* C7: whatever the parent conversation holds, every model call of a subagent
\* is made with a conversation whose first entry is the user message holding
\* the Task prompt, the first call with that entry alone, and no message of
\* the parent conversation is in it.
C7_SubagentSeesOnlyPrompt ==
    pc = "sub_call"
    => /\ sub.messages[1] = Message("user", StrContent(CurrentCall.input.prompt))
       /\ sub.calls = 0 => Len(sub.messages) = 1
       /\ \A i \in 1..Len(sub.messages) : \A j \in 1..Len(messages) :
             sub.messages[i] # messages[j]

\* C7 witness: a subagent's first model call is about to be made by a parent
\* whose conversation already holds a completed tool turn.
C7_Witness ==
    /\ pc = "sub_call"
    /\ sub.calls = 0
    /\ Len(messages) >= 3

\* C8: an Explore or Plan subagent never carries out a tool other than Bash
\* and Read, whatever tool-use blocks the model returns.
C8_ReadOnlySubagentRunsOnlyBashRead ==
    \A e \in executed : e[1] \in {"Explore", "Plan"} => e[2] \in {"Bash", "Read"}

\* the texts spawn_subagent can return for a Task call of that agent type
TaskResultTexts(agent_type) ==
    IF agent_type \in AgentTypes
    THEN {IF r.texts = <<>> THEN "(subagent returned no text)" ELSE r.texts[1] :
             r \in {x \in SubResponses : x.stop_reason # "tool_use"}}
    ELSE {UnknownAgentError(agent_type)}

\* the block does not come from a subagent's conversation
NotOfSubagent(b) ==
    /\ IsToolUse(b) => b.id.by = "main"
    /\ IsToolResult(b) => b.tool_use_id.by = "main"
    /\ IsText(b) => b.text \notin {SubText, SubText2}

\* the results of message i + 1 that answer the tool-use block b
AnswersTo(i, b) ==
    SelectSeq(messages[i + 1].content, LAMBDA r : IsToolResult(r) /\ r.tool_use_id = b.id)

\* C9: a Task tool call of a completed turn has exactly one tool-result block
\* in the parent conversation, whose content is a text spawn_subagent projects
\* from the subagent's final response; no tool-use, tool-result or text block
\* of a subagent's conversation is in the parent's conversation or in the
\* results being collected, however many tool calls the subagent made.
C9_OnlyProjectionReachesParent ==
    /\ \A i \in 1..Len(messages) : \A j \in 1..Len(messages[i].content) :
          NotOfSubagent(messages[i].content[j])
    /\ \A j \in 1..Len(results) : NotOfSubagent(results[j])
    /\ \A i \in 1..(Len(messages) - 1) : \A j \in 1..Len(messages[i].content) :
          LET b == messages[i].content[j]
          IN (/\ messages[i].role = "assistant"
              /\ IsToolUse(b) /\ b.name = "Task"
              /\ ToolResultIds(messages[i + 1].content) # <<>>)
             => /\ Len(AnswersTo(i, b)) = 1
                /\ AnswersTo(i, b)[1].content \in TaskResultTexts(b.input.agent_type)

\* C9 witness: a turn with a Task call has completed in the parent
\* conversation after the subagent carried out tools of its own.
C9_Witness ==
    /\ pc = "poll_a"
    /\ \E e \in executed : e[1] \in AgentTypes
    /\ \E i \in 1..(Len(messages) - 1) : \E j \in 1..Len(messages[i].content) :
          LET b == messages[i].content[j]
          IN /\ messages[i].role = "assistant"
             /\ IsToolUse(b) /\ b.name = "Task"
             /\ Len(AnswersTo(i, b)) = 1

\* C10: no step taken while a subagent runs changes the parent's task list or
\* rounds counter; the counter changes only at the end of a parent turn, by
\* that turn's single reset or increment; and every TaskUpdate issued inside a
\* subagent is answered with the "not available" error string.
C10_TrackerNotShared ==
    /\ [][/\ sub.active => (tasks' = tasks /\ rounds_without_task' = rounds_without_task)
          /\ rounds_without_task' # rounds_without_task
             => /\ pc = "turn_end"
                /\ rounds_without_task' \in {0, rounds_without_task + 1}]_vars
    /\ [](sub.active
          => SubResultsFor("TaskUpdate", "Error: TaskUpdate not available in this context"))

\* C10 witness: a running subagent has issued a TaskUpdate and got its answer.
C10_Witness ==
    /\ sub.active
    /\ SubHasResult("Error: TaskUpdate not available in this context")

\* C11: when a subagent ends normally (its response's stop reason is not
\* tool_use), the result collected for the Task call is the text of the first
\* text block of that response, or "(subagent returned no text)" when the
\* response has no text block.
C11_SubagentReturnsFirstText ==
    [][(pc = "sub_return" /\ pc' # "sub_return")
       => LET texts == SelectSeq(sub.response.content, IsText)
              answer == results'[Len(results')]
          IN /\ sub.response.stop_reason # "tool_use"
             /\ Len(results') = Len(results) + 1
             /\ answer.tool_use_id = CurrentCall.id
             /\ answer.content = IF texts = <<>> THEN "(subagent returned no text)"
                                 ELSE texts[1].text]_vars

\* C11 witness: a subagent whose final response carried two text blocks has
\* returned, and the Task call's result is the first of them.
C11_Witness ==
    /\ pc \in {"poll_c", "turn_end"}
    /\ results # <<>>
    /\ ToolCallsOf(response.content)[Len(results)].name = "Task"
    /\ results[Len(results)].content = SubText

\* The tool names execute_tool has a case for
KnownTools == HandlerTools \cup {"TaskUpdate", "Task"}

\* A task list that meets the tracker's rules
TasksValid(ts) ==
    /\ Len(ts) <= 20
    /\ \A i \in 1..Len(ts) :
          /\ ts[i].content # ""
          /\ ts[i].active_form # ""
          /\ ts[i].status \in {"pending", "in_progress", "completed"}
    /\ \A i, j \in 1..Len(ts) :
          (ts[i].status = "in_progress" /\ ts[j].status = "in_progress") => i = j

BeginsWithError(str) == Len(str) >= 7 /\ SubSeq(str, 1, 7) = "Error: "

\* The list a direct TaskUpdate call carried, each dict read as a task
SentTasks(inv) ==
    [i \in 1..Len(Get(inv.input, "tasks", <<>>)) |-> DictToTask(Get(inv.input, "tasks", <<>>)[i])]

\* C12: whatever the tool name and the input object, execute_tool returns a
\* string; no exception leaves it.
C12_DispatchNeverRaises ==
    invocation.name # "none" => invocation.kind = "return"

\* C13: every error met inside a tool (a handler's fault, a rejected task
\* list, an unknown tool or agent type, a tool not available in the context)
\* comes back as a string that begins with "Error: ".
C13_ToolErrorsBeginWithError ==
    (/\ invocation.name # "none"
     /\ invocation.kind = "return"
     /\ \/ invocation.name \notin KnownTools
        \/ invocation.name \in HandlerTools /\ invocation.fails
        \/ invocation.name = "Task" /\ ~invocation.has_spawn
        \/ invocation.name = "Task" /\ invocation.input.agent_type \notin AgentTypes
        \/ invocation.name = "TaskUpdate" /\ ~invocation.has_task_manager
        \/ invocation.name = "TaskUpdate" /\ ~TasksValid(SentTasks(invocation)))
    => BeginsWithError(invocation.output)

\* C14: after any sequence of updates, accepted or rejected, the stored list
\* has at most one in_progress task and at most 20 tasks, and every task has
\* non-empty content, non-empty active_form and one of the three statuses.
C14_StoredTasksValid == TasksValid(tasks)

\* C14 witness: the tracker holds a full list of 20 tasks and has just
\* rejected a list of 21.
C14_Witness ==
    /\ invocation.name = "TaskUpdate"
    /\ invocation.has_task_manager
    /\ Len(SentTasks(invocation)) = 21
    /\ Len(tasks) = 20

\* C15: an update that fails validation leaves the tracker's list exactly as
\* it was and answers with an error (two in_progress tasks: "Only one task can
\* be in progress"); an accepted update replaces the whole list with the one
\* sent.
C15_RejectedUpdateIsAtomic ==
    [][(invocation'.name = "TaskUpdate" /\ invocation'.has_task_manager)
       => LET sent == SentTasks(invocation')
          IN /\ TasksValid(sent) => tasks' = sent
             /\ ~TasksValid(sent) => (tasks' = tasks /\ BeginsWithError(invocation'.output))
             /\ (Len(sent) = 2 /\ TasksValid(<<sent[1]>>) /\ TasksValid(<<sent[2]>>)
                 /\ sent[1].status = "in_progress" /\ sent[2].status = "in_progress")
                => invocation'.output = "Error: Only one task can be in progress at a time"]_vars

\* C15 witness: a list with two in_progress tasks has just been rejected
\* while the tracker held a list, which it still holds.
C15_Witness ==
    /\ invocation.name = "TaskUpdate"
    /\ invocation.has_task_manager
    /\ invocation.output = "Error: Only one task can be in progress at a time"
    /\ tasks # <<>>
    /\ tasks # SentTasks(invocation)

\* C16 as stated: whenever the interrupt is raised, a turn whose tool uses
\* include TaskUpdate has the counter reset: a run that ended in such a turn
\* leaves the counter at 0.
C16_ResetInEveryTaskUpdateTurn ==
    (/\ pc = "finally"
     /\ response.stop_reason = "tool_use"
     /\ \E i \in 1..Len(response.content) :
           IsToolUse(response.content[i]) /\ response.content[i].name = "TaskUpdate")
    => rounds_without_task = 0

\* C16, amended: the counter changes only when a tool turn has run to its
\* end (stop reason tool_use, every tool call answered, no interrupt honoured
\* and no failure before the last tool returned): it is reset to 0 when the
\* turn's tool uses include TaskUpdate and incremented by exactly 1 otherwise.
\* A response with another stop reason and a turn cut short by an interrupt
\* or a failure leave it unchanged.  It is never negative.
C16_CounterFollowsCompletedTurns ==
    /\ [][IF pc = "turn_end" /\ pc' # "turn_end"
          THEN /\ response.stop_reason = "tool_use"
               /\ Len(results) = Len(ToolCallsOf(response.content))
               /\ rounds_without_task' =
                     IF \E i \in 1..Len(response.content) :
                           IsToolUse(response.content[i]) /\ response.content[i].name = "TaskUpdate"
                     THEN 0 ELSE rounds_without_task + 1
          ELSE rounds_without_task' = rounds_without_task]_vars
    /\ [](rounds_without_task >= 0)

\* C16 witness: a Bash turn raised the counter and a later turn that used
\* TaskUpdate has reset it.
C16_Witness ==
    /\ pc = "poll_a"
    /\ rounds_without_task = 0
    /\ Len(messages) = 5
    /\ messages[2].role = "assistant"
    /\ ToolCallsOf(messages[2].content) # <<>>
    /\ \A i \in 1..Len(ToolCallsOf(messages[2].content)) :
          ToolCallsOf(messages[2].content)[i].name # "TaskUpdate"
    /\ \E i \in 1..Len(ToolCallsOf(messages[4].content)) :
          ToolCallsOf(messages[4].content)[i].name = "TaskUpdate"

\* C17: the user message the loop appends after a tool turn has the nag
\* reminder as its first block, and no second one, exactly when the counter
\* is above 10 after that turn's reset or increment, and has none otherwise;
\* from counter 0, after 11 turns that use only Bash the user message of the
\* 12th such turn has the nag reminder as its first block.
C17_NagExactlyWhenOverdue ==
    /\ [][(pc = "turn_end" /\ pc' # "turn_end")
          => LET m == messages'[Len(messages')]
                 nags == SelectSeq(m.content, LAMBDA b : b = TextBlock(NAG_REMINDER))
             IN /\ m.role = "user"
                /\ IF rounds_without_task' > 10
                   THEN Len(nags) = 1 /\ m.content[1] = TextBlock(NAG_REMINDER)
                   ELSE Len(nags) = 0]_vars
    /\ []((/\ Len(messages) >= 25
           /\ \A k \in 1..12 :
                 /\ ToolCallsOf(messages[2 * k].content) # <<>>
                 /\ \A i \in 1..Len(ToolCallsOf(messages[2 * k].content)) :
                       ToolCallsOf(messages[2 * k].content)[i].name = "Bash")
          => messages[25].content[1] = TextBlock(NAG_REMINDER))

\* C17 witness: twelve Bash-only turns have been completed from a fresh
\* tracker; the tenth turn's user message has no nag, the twelfth's has it.
C17_Witness ==
    /\ pc = "poll_a"
    /\ Len(messages) = 25
    /\ rounds_without_task = 12
    /\ \A k \in 1..12 : \A i \in 1..Len(ToolCallsOf(messages[2 * k].content)) :
          ToolCallsOf(messages[2 * k].content)[i].name = "Bash"
    /\ messages[21].content[1] # TextBlock(NAG_REMINDER)
    /\ messages[25].content[1] = TextBlock(NAG_REMINDER)

\* C18: in every user message of the conversation, all tool-result blocks
\* come before any reminder text block.
C18_ResultsPrecedeReminder ==
    \A i \in 1..Len(messages) :
        messages[i].role = "user"
        => \A j, k \in 1..Len(messages[i].content) :
              (IsText(messages[i].content[j]) /\ IsToolResult(messages[i].content[k])) => k < j

\* C19: the first user message a top-level agent builds holds, in order, the
\* CLAUDE.md system reminder when there is one, the tracker's initial
\* reminder and the user text; every later user message built in the session
\* holds the user text alone, and no later message carries either reminder; an
\* agent flagged as a subagent builds the user text alone, first turn or not.
C19_RemindersOncePerSession ==
    /\ Len(messages) >= 1
       => \E u \in UserInputs :
             \/ messages[1] = Message("user", <<TextBlock(SYSTEM_REMINDER),
                                                 TextBlock(INITIAL_REMINDER), TextBlock(u)>>)
             \/ messages[1] = Message("user", <<TextBlock(INITIAL_REMINDER), TextBlock(u)>>)
    /\ \A i \in 2..Len(messages) : \A j \in 1..Len(messages[i].content) :
          IsText(messages[i].content[j])
          => /\ messages[i].content[j].text \notin {SYSTEM_REMINDER, INITIAL_REMINDER}
             /\ (messages[i].role = "user" /\ messages[i].content[j].text \in UserInputs)
                => Len(messages[i].content) = 1
    /\ \A first \in BOOLEAN, md \in BOOLEAN, u \in UserInputs :
          BuildContent(first, TRUE, md, u) = <<TextBlock(u)>>

\* C19 witness: a session whose first message carries both reminders has had
\* a second user message built, with the user text alone.
C19_Witness ==
    /\ Len(messages) >= 3
    /\ messages[1].content[1] = TextBlock(SYSTEM_REMINDER)
    /\ messages[1].content[2] = TextBlock(INITIAL_REMINDER)
    /\ \E i \in 2..Len(messages) : \E u \in UserInputs :
          messages[i] = Message("user", <<TextBlock(u)>>)

\* C20: every step leaves the messages appended so far unchanged and in
\* place (the conversation before the step is a prefix of the one after),
\* except the /clear that discards the conversation between runs.
C20_ConversationAppendOnly ==
    [][\/ /\ Len(messages') >= Len(messages)
          /\ SubSeq(messages', 1, Len(messages)) = messages
       \/ /\ ~is_running
          /\ pc' = pc
          /\ messages' = <<>>
          /\ first_turn']_vars

\* C20 witness: a conversation that grew by a built message, a tool turn and
\* a normal return in one run, then by a built message and an interrupt
\* notification in the next.
C20_Witness ==
    /\ Len(messages) = 6
    /\ ToolResultIds(messages[3].content) # <<>>
    /\ messages[4].role = "assistant"
    /\ messages[5].role = "user"
    /\ messages[6] = InterruptMessage

\* C21: within a turn the tool calls are handled one after another in the
\* order of the response: a call is dispatched, and a subagent runs, only when
\* every earlier call of the turn has its result, and the results collected
\* are those of the response's first calls, in the same order.
C21_ToolsRunInOrder ==
    pc \in {"poll_c", "dispatch", "turn_end", "sub_call", "sub_dispatch", "sub_return"}
    => /\ Len(results) <= Len(ToolCallsOf(response.content))
       /\ \A j \in 1..Len(results) :
             results[j].tool_use_id = ToolCallsOf(response.content)[j].id
       /\ pc = "turn_end" => Len(results) = Len(ToolCallsOf(response.content))
       /\ pc # "turn_end" => tool_index = Len(results) + 1
       /\ sub.active => pc \in {"sub_call", "sub_dispatch", "sub_return"}

\* C21 witness: a turn with two tool calls has collected both results.
C21_Witness ==
    /\ pc = "turn_end"
    /\ Len(results) = 2
    /\ results[1].tool_use_id # results[2].tool_use_id
    /\ results[2].tool_use_id = ToolCallsOf(response.content)[2].id

\* C22: the loop is left only by a response whose stop reason is not
\* tool_use, by an observed interrupt, or by a failure of the loop's model
\* request; once a tool_use response is in hand and no interrupt is observed,
\* the loop goes on to another model request.
C22_LoopExitsOnlyThreeWays ==
    pc = "error" => response = NoResponse

\* C23: a failed model request leaves the conversation as it was before the
\* request: the failing step and the error report append nothing, the report
\* is followed by the end of the run, and the application is then idle, not
\* flagged running, and takes a new input.
C23_ModelFailureLeavesConversation ==
    /\ [][/\ (pc = "call" /\ pc' = "error") => messages' = messages
          /\ pc = "error" => (messages' = messages /\ pc' \in {"error", "finally"})
          /\ (pc = "finally" /\ pc' # "finally")
             => (messages' = messages /\ pc' = "idle" /\ ~is_running' /\ ~is_interrupting')]_vars
    /\ []((pc = "idle" /\ runs < MaxRuns /\ model_calls < MaxModelCalls) => ENABLED Submit)

\* C23 witness: the only model request of the first run failed; the
\* application is idle again and the conversation holds the user message alone.
C23_Witness ==
    /\ pc = "idle"
    /\ ~is_running
    /\ runs = 1
    /\ model_calls = 1
    /\ ui_interrupted = 0
    /\ Len(messages) = 1

C25_DangerousCommandsBlocked ==
    (pc = "direct" /\ invocation.name = "Bash" /\ "command" \in DOMAIN invocation.input)
    => IF \/ Contains(invocation.input.command, "rm -rf /")
          \/ Contains(invocation.input.command, "sudo")
          \/ Contains(invocation.input.command, "shutdown")
          \/ Contains(invocation.input.command, "reboot")
          \/ Contains(invocation.input.command, "> /dev/")
       THEN invocation.output = "Error: Dangerous command blocked" /\ ~invocation.started
       ELSE invocation.started /\ invocation.output # "Error: Dangerous command blocked"

\* C25 witness: a redirection into /dev/ in the middle of a command was refused
C25_Witness ==
    /\ pc = "direct"
    /\ invocation.name = "Bash"
    /\ invocation.input = [command |-> "ls > /dev/null"]
    /\ invocation.output = "Error: Dangerous command blocked"
    /\ ~invocation.started

\* C26: every string execute_tool returns, for every tool and error strings
\* included, is at most 50,000 units long.
C26_OutputsCapped ==
    (pc = "direct" /\ invocation.name = "execute_tool") => invocation.length <= 50000

C28_WriteReadRoundTrip ==
    [][/\ (/\ pc = "idle" /\ pc' = "direct" /\ invocation'.name = "Write"
           /\ ~BeginsWithError(invocation'.output))
          => files'[Resolve(invocation'.input.path)] = invocation'.input.content
       /\ (/\ pc = "idle" /\ pc' = "direct" /\ invocation'.name = "Read"
           /\ Resolve(invocation'.input.path) \in DOMAIN files
           /\ IsRelativeTo(Resolve(invocation'.input.path), workdir))
          => invocation'.output = files[Resolve(invocation'.input.path)]]_vars

\* C29: Edit on a file that holds old_text replaces its leftmost occurrence by
\* new_text, leaves every other character and every other file as it was, and
\* returns "Edited <path>"; on a file that does not hold old_text it returns
\* "Error: Text not found in <path>" and changes nothing.
C29_EditFirstOccurrenceOnly ==
    [][(/\ pc = "idle" /\ pc' = "direct" /\ invocation'.name = "Edit"
        /\ IsRelativeTo(Resolve(invocation'.input.path), workdir)
        /\ Resolve(invocation'.input.path) \in DOMAIN files)
       => LET loc == Resolve(invocation'.input.path)
              old == invocation'.input.old_text
              new == invocation'.input.new_text
              Occurs(k) == k + Len(old) - 1 <= Len(files[loc])
                           /\ SubSeq(files[loc], k, k + Len(old) - 1) = old
          IN IF \E k \in 1..(Len(files[loc]) + 1) : Occurs(k)
             THEN /\ invocation'.output = "Edited " \o PathStr(invocation'.input.path)
                  /\ DOMAIN files' = DOMAIN files
                  /\ \A l \in DOMAIN files \ {loc} : files'[l] = files[l]
                  /\ \E k \in 1..(Len(files[loc]) + 1) :
                        /\ Occurs(k)
                        /\ \A j \in 1..(k - 1) : ~Occurs(j)
                        /\ files'[loc] = SubSeq(files[loc], 1, k - 1) \o new
                                         \o SubSeq(files[loc], k + Len(old), Len(files[loc]))
             ELSE /\ invocation'.output
                       = "Error: Text not found in " \o PathStr(invocation'.input.path)
                  /\ files' = files]_vars

\* C29 witness: of the two occurrences in "aa" the first was replaced
C29_Witness ==
    /\ pc = "direct"
    /\ invocation.name = "Edit"
    /\ invocation.input = [path |-> TargetPath, old_text |-> "a", new_text |-> "\n"]
    /\ invocation.output = "Edited f"
    /\ files[<<"w", "f">>] = "\na"

\* C30: the index holds each name once; a name that a folder of the local
\* directory declares is in the index (and so in list_skills()) with a local
\* folder behind it, whatever the plugins declare; a plugin's skill is in the
\* index only if no folder loaded before it declared the same name.
C30_LocalSkillsWin ==
    skills.loaded
    => /\ \A i, j \in 1..Len(skills.index) :
              skills.index[i].name = skills.index[j].name => i = j
       /\ \A f \in 1..Len(skills.local) :
              skills.local[f] # "-"
              => \E i \in 1..Len(skills.index) :
                     /\ skills.index[i].name = skills.local[f]
                     /\ skills.index[i].origin = "local"
                     /\ skills.local[skills.index[i].folder] = skills.local[f]
       /\ \A i \in 1..Len(skills.index) :
              skills.index[i].origin # "local"
              => /\ \A f \in 1..Len(skills.local) : skills.local[f] # skills.index[i].name
                 /\ \E p \in 1..Len(skills.plugins) :
                        /\ skills.index[i].origin = "plugin " \o ToString(p)
                        /\ skills.plugins[p][skills.index[i].folder] = skills.index[i].name
                        /\ \A q \in 1..(p - 1) : \A f \in 1..Len(skills.plugins[q]) :
                               skills.plugins[q][f] # skills.index[i].name
                        /\ \A f \in 1..(skills.index[i].folder - 1) :
                               skills.plugins[p][f] # skills.index[i].name

\* C30 witness: a plugin declares the local skill's name and another a name of
\* its own; the index holds the local pdf and the second plugin's git.
C30_Witness ==
    /\ skills.loaded
    /\ skills.local = <<"-", "pdf">>
    /\ skills.plugins = << <<"pdf">>, <<"git">> >>
    /\ skills.index = << [name |-> "pdf", origin |-> "local", folder |-> 2],
                         [name |-> "git", origin |-> "plugin 2", folder |-> 1] >>

\* C31: for each recognised key the value used comes from the settings file's
\* env object if the key has a value there (a string; null gives none), else
\* from the environment variable if it is set, else it is the default; what
\* the environment holds never changes the outcome of a key the file gives.
C31_ConfigPrecedence ==
    config.loaded
    => LET InFile(k) == config.file.state = "ok" /\ k \in DOMAIN config.file.env
                        /\ config.file.env[k].kind = "str"
           Chosen(k, default) ==
               IF InFile(k) THEN config.file.env[k].value
               ELSE IF config.environ[k].kind = "str" THEN config.environ[k].value
               ELSE default
           Unset == [k \in ConfigKeys |-> [kind |-> "unset"]]
           Only(v) == [x \in {"MAX_THINKING_TOKENS"} |-> Str(v)]
       IN /\ config.model = Chosen("ANTHROPIC_MODEL", "claude-opus-4-5-20251101")
          /\ config.api_key = Chosen("ANTHROPIC_AUTH_TOKEN", "")
          /\ config.base_url = Chosen("ANTHROPIC_BASE_URL", "")
          /\ config.max_thinking_tokens
               = GetConfigIntValue(Only(Chosen("MAX_THINKING_TOKENS", "")), Unset,
                                   "MAX_THINKING_TOKENS", 31999, 1024)

\* C31 witness: file and environment both name a model and the file's is used;
\* the file's unparsable MAX_THINKING_TOKENS gives the default though the
\* environment holds a number; the token comes from the environment.
C31_Witness ==
    /\ config.loaded
    /\ config.file.state = "ok"
    /\ DOMAIN config.file.env = {"ANTHROPIC_MODEL", "MAX_THINKING_TOKENS"}
    /\ config.file.env["ANTHROPIC_MODEL"] = Str("from file")
    /\ config.environ["ANTHROPIC_MODEL"] = Str("from environ")
    /\ config.model = "from file"
    /\ config.file.env["MAX_THINKING_TOKENS"] = Str("abc")
    /\ config.environ["MAX_THINKING_TOKENS"] = Str("2048")
    /\ config.max_thinking_tokens = 31999
    /\ config.environ["ANTHROPIC_AUTH_TOKEN"] = Str("from environ")
    /\ config.api_key = "from environ"
    /\ config.base_url = ""

\* C32: max_thinking_tokens is at least 1024 whatever MAX_THINKING_TOKENS
\* holds in the file or the environment: a number below 1024 gives 1024, a
\* number of 1024 or more is kept, an empty, missing or unparsable value gives
\* the default 31999.
C32_ThinkingTokensClamped ==
    config.loaded
    => LET k == "MAX_THINKING_TOKENS"
           chosen == IF config.file.state = "ok" /\ k \in DOMAIN config.file.env
                        /\ config.file.env[k].kind = "str"
                     THEN config.file.env[k].value
                     ELSE IF config.environ[k].kind = "str" THEN config.environ[k].value
                     ELSE ""
           number == CASE chosen = "-5" -> -5 [] chosen = "0" -> 0 [] chosen = "512" -> 512
                       [] chosen = "1023" -> 1023 [] chosen = "1024" -> 1024
                       [] chosen \in {"2048", " 2048 "} -> 2048 [] chosen = "40000" -> 40000
                       [] OTHER -> 31999
       IN /\ config.max_thinking_tokens >= 1024
          /\ config.max_thinking_tokens = IF number < 1024 THEN 1024 ELSE number

\* C32 witness: the file is not parsable and the environment's 512 became 1024
C32_Witness ==
    /\ config.loaded
    /\ config.file.state = "malformed"
    /\ config.config_error # "none"
    /\ config.environ["MAX_THINKING_TOKENS"] = Str("512")
    /\ config.max_thinking_tokens = 1024

\* C33: from the model call of a turn to an interrupt observed after that call
\* or before one of the turn's tools, nothing is appended to the conversation,
\* whose last message is then the preceding user message; the interrupt
\* handler appends the task_interrupted notification and nothing else, so the
\* turn's assistant message and the results of the tools already run are not
\* recorded.
C33_InterruptedTurnNotRecorded ==
    [][/\ (pc \in {"call", "poll_c", "dispatch", "sub_call", "sub_dispatch", "sub_return"}
           /\ pc' # "error")
          => messages' = messages
       /\ (pc = "poll_b" /\ pc' # "finally") => messages' = messages
       /\ (pc \in {"poll_b", "poll_c"} /\ pc' = "interrupt")
          => /\ Last(messages).role = "user"
             /\ Len(results') = (IF pc = "poll_c" THEN tool_index - 1 ELSE Len(results))
       /\ (pc = "interrupt" /\ pc' # "interrupt")
          => /\ messages' = Append(messages, InterruptMessage)
             /\ pc' = "finally"]_vars

\* C33 witness: the second tool of the first turn was about to run when the
\* interrupt was seen; one tool ran, and the conversation holds the user's
\* message and the notification only.
C33_Witness ==
    /\ pc = "finally"
    /\ req_at.pc \in {"poll_c", "dispatch"}
    /\ Len(results) = 1
    /\ Len(ToolCallsOf(response.content)) = 2
    /\ executed # {}
    /\ Len(messages) = 2
    /\ messages[1].role = "user"
    /\ messages[2] = InterruptMessage

C36_ClearKeepsTracker ==
    [][/\ (~is_running /\ pc' = pc)
          => /\ messages' = <<>>
             /\ first_turn'
             /\ tasks' = tasks
             /\ rounds_without_task' = rounds_without_task
       /\ (pc = "build" /\ pc' # "build" /\ messages = <<>>)
          => \E md \in BOOLEAN :
                messages' = <<Message("user", BuildContent(TRUE, FALSE, md, user_input))>>]_vars

\* C36 witness: the first run stored a task; after /clear the second run's
\* message is the only one of the conversation, carries the tracker's initial
\* reminder, and the task is still stored.
C36_Witness ==
    /\ runs = 2
    /\ pc = "poll_a"
    /\ Len(messages) = 1
    /\ tasks # <<>>
    /\ \E j \in 1..Len(messages[1].content) : messages[1].content[j] = TextBlock(INITIAL_REMINDER)
    /\ ~first_turn

\* C35: at most one run_agent worker is inside Agent.run at a time, and no
\* input is accepted while a worker started for an earlier input has not
\* finished.
C35_AtMostOneRun ==
    Cardinality({i \in 1..Len(workers) : workers[i].state \in {"clear", "build", "call"}}) <= 1

\* C37: a WebReader call that returns a page returns one that a GET made in
\* the call's own 900-second bucket brought (by this call or an earlier one of
\* the bucket), never a page fetched in another bucket; the first call for the
\* url in a bucket goes upstream even when an earlier bucket's entry is still
\* in the cache.
C37_NeverServedOutsideBucket ==
    \A j \in 1..Len(web.log) :
       /\ web.log[j].output # "Fetch failed: <error>"
          => \E k \in 1..j :
                /\ web.log[k].bucket = web.log[j].bucket
                /\ web.log[k].get
                /\ web.log[k].output = "page " \o ToString(web.log[k].gets)
                /\ web.log[j].output = web.log[k].output
       /\ (\A k \in 1..(j - 1) : web.log[k].bucket # web.log[j].bucket) => web.log[j].get

\* C37 witness: the url was fetched in bucket 0 and asked for again in bucket
\* 1 while the cache still held the page of bucket 0; the second call made a
\* GET of its own and returned the new page.
C37_Witness ==
    /\ Len(web.log) = 2
    /\ web.log[1].bucket = 0
    /\ web.log[1].output = "page 1"
    /\ web.log[2].bucket = 1
    /\ web.log[2].get
    /\ web.log[2].output = "page 2"
    /\ \E i \in 1..Len(web.cache) : web.cache[i] = [key |-> <<TargetUrl, 0>>, value |-> "page 1"]

====
